---- MODULE Spec2Model ----
(***************************************************************************)
(* A model of the reconciliation engine of obsidian-livesync:              *)
(*   src/src/common/utils.ts               compareMTime, the registry of   *)
(*                                         "same change" timestamps        *)
(*   src/src/modules/core/ModuleFileHandler.ts   the engine's operations   *)
(* Each component has its own specification over the shared variables:     *)
(*   SpecMTime          compareMTime applied to sampled timestamps         *)
(*   SpecRegistry       markChangesAreSame / unmarkChanges, with the last  *)
(*                      call as history                                    *)
(*   SpecRegistryWatch  the same calls, with the history of one pair       *)
(*   SpecPartition      the same calls, for the files of two paths         *)
(*   SpecLock           the two entry points and serialized()              *)
(*   SpecChunks         createAllChunks                                    *)
(*   SpecEngine         dbToStorage and $anyProcessReplicatedDoc on one    *)
(*                      path                                               *)
(*   SpecStore          storeFileToDB, dbToStorage and deleteFileFromDB on *)
(*                      one path whose document has one revision           *)
(*   SpecFreshness      compareFileFreshness and the registry              *)
(*   SpecRevisions      deleteFileFromDB, dbToStorageWithSpecificRev and   *)
(*                      resolveConflictedByDeletingRevision on one path    *)
(* The collaborators the code only calls (the storage, the database,       *)
(* serialized and Semaphore of octagonal-wheels) answer as their           *)
(* interfaces allow, every answer being possible.                          *)
(***************************************************************************)
EXTENDS Integers, Sequences, FiniteSets, TLC

VARIABLES
    \* ---- compareMTime (SpecMTime)
    baseMTime,          \* the first argument of the call
    targetMTime,        \* the second argument of the call
    mtResult,           \* "none" before the call, then what it returned
    \* ---- the registry (SpecRegistry)
    sameChangePairs,    \* key -> the timestamps stored for the key
    lastOp,             \* history: the last registry call and its arguments
    unmarkedSince,      \* history: key -> unmarkChanges ran and no mark since
    watch,              \* history: a file and a pair of timestamps, fixed at start
    watchState,         \* history: what happened to that pair, see WatchAfterMark
    \* ---- the two entry points and the per-key lock (SpecLock)
    req,                \* request -> its kind, arguments and position
    serializedQueue,    \* the calls of serialized() not yet finished, oldest first
    \* ---- createAllChunks (SpecChunks)
    sweep,              \* "idle", "running", then "done" or "raised"
    total,              \* filesStorageSrc.length
    processed,          \* the counter of incProcessed
    progressLogs,       \* how many progress lines incProcessed has logged
    slotsHeld,          \* slots of the semaphore acquired and not released
    cPending,           \* per-file tasks awaiting $$isTargetFile
    cWaiting,           \* per-file tasks awaiting semaphore.acquire()
    cRunning,           \* per-file tasks awaiting storeFileToDB
    cFulfilled,         \* per-file tasks that have returned
    cRejected,          \* per-file tasks that have raised
    nTargets,           \* history: files that passed both filters
    nAttempted,         \* history: calls of storeFileToDB(file, false, true)
    storeFailed,        \* history: some storeFileToDB has raised
    \* ---- the engine's operations on one path (SpecEngine)
    storage,            \* what the storage holds at the path
    dbDoc,              \* the document of the path in the database
    conflictedRevs,     \* the conflicting revisions of the path
    writeDocumentsIfConflicted,     \* the setting
    lastCall,           \* history: the last operation, its arguments, the
                        \* state it started in, its result and what it called
    roundTrip,          \* history: how far a store followed by restores has got
    syncWrites,         \* history: writes since a start with identical content,
                        \* -1 when the run did not start so or has left the case
    \* ---- the revisions of the path's document (SpecRevisions)
    revisions,          \* revision -> the document at that leaf, if any
    fileRev             \* history: the revision the storage file was written from

mtVars  == <<baseMTime, targetMTime, mtResult>>
regVars == <<sameChangePairs, lastOp, unmarkedSince, watch, watchState>>
lockVars == <<req, serializedQueue>>
chunkVars == <<sweep, total, processed, progressLogs, slotsHeld, cPending,
               cWaiting, cRunning, cFulfilled, cRejected, nTargets, nAttempted,
               storeFailed>>
engVars == <<storage, dbDoc, conflictedRevs, writeDocumentsIfConflicted, lastCall,
             roundTrip, syncWrites, revisions, fileRev>>
vars    == <<mtVars, regVars, lockVars, chunkVars, engVars>>

(***************************************************************************)
(* Timestamps of compareMTime.  A JavaScript number t is kept as           *)
(*      t = sign * ((k * 2^31 + m) * resolution + r)                       *)
(* with 0 <= m < 2^31 and 0 <= r < resolution, so that the quotient        *)
(* t / resolution, which leaves the 32-bit range, is held in two limbs.    *)
(***************************************************************************)
resolution == 2000
Int32Max   == 2147483647            \* 2^31 - 1, the largest value of ~~x
MaxWrap    == 2                     \* k ranges over 0..MaxWrap

WideNum(neg, k, m, r) == [neg |-> neg, k |-> k, m |-> m, r |-> r]

IsZero(t) == t.k = 0 /\ t.m = 0 /\ t.r = 0

\* The sampled timestamps: around 0, around one bucket, around the 32-bit edge.
WideSamples ==
    { t \in [neg : BOOLEAN, k : 0..MaxWrap, m : {0, 1, 2, Int32Max},
             r : {0, 1, resolution - 1}] : ~(t.neg /\ IsZero(t)) }

\* A small non-negative integer as a timestamp.
FromInt(n) == WideNum(FALSE, 0, n \div resolution, n % resolution)

\* ~~(t / resolution): the quotient truncated toward zero (the fraction r /
\* resolution is dropped for either sign), then reduced modulo 2^32 into
\* [-2^31, 2^31) as ToInt32 does.
ToInt32OfQuotient(t) ==
    LET odd == (t.k % 2) = 1
    IN  IF ~t.neg
        THEN IF odd THEN (t.m - Int32Max) - 1 ELSE t.m
        ELSE IF ~odd THEN 0 - t.m
             ELSE IF t.m = 0 THEN (0 - Int32Max) - 1
                  ELSE (Int32Max - t.m) + 1

\* compareMTime: both quotients are multiplied by resolution again, which is
\* exact in a double and keeps their order, and then compared.
compareMTime(baseT, targetT) ==
    LET truncatedBaseMTime   == ToInt32OfQuotient(baseT)
        truncatedTargetMTime == ToInt32OfQuotient(targetT)
    IN  IF truncatedBaseMTime = truncatedTargetMTime THEN "EVEN"
        ELSE IF truncatedBaseMTime > truncatedTargetMTime THEN "BASE_IS_NEW"
        ELSE "TARGET_IS_NEW"

InitMTime ==
    /\ baseMTime \in WideSamples
    /\ targetMTime \in WideSamples
    /\ mtResult = "none"

CallCompareMTime ==
    /\ mtResult = "none"
    /\ mtResult' = compareMTime(baseMTime, targetMTime)
    /\ UNCHANGED <<baseMTime, targetMTime>>

(***************************************************************************)
(* The registry of timestamps judged to be the same change.                *)
(* A path is a sequence of its ":"-separated parts, the last one the path  *)
(* on the storage.  A file argument is a string or an object with a path.  *)
(***************************************************************************)
MaxTime == 4                        \* registry timestamps are 1..MaxTime
MaxListLen == 2                     \* the lists asked of isMarkedAsSameChanges

Times == 1..MaxTime
Paths == {<<"a.md">>, <<"i", "a.md">>}
FileArgs == [isString : BOOLEAN, path : Paths]
TimeLists == UNION {[1..n -> Times] : n \in 0..MaxListLen}

stripAllPrefixes(path) == <<path[Len(path)]>>

getKeyShared(file) == <<"a.md">>    \* a faulty variant: one key for every file

getKey(file) == IF file.isString THEN file.path ELSE stripAllPrefixes(file.path)

Keys == {getKey(f) : f \in FileArgs}

\* sameChangePairs.get(key, []) || []
PairsOf(reg, key) == reg[key]

markChangesAreSameReplacing(reg, file, mtime1, mtime2) ==
    \* a faulty variant: the pair always replaces what is stored
    IF mtime1 = mtime2 THEN reg
    ELSE [reg EXCEPT ![getKey(file)] = {mtime1, mtime2}]

markChangesAreSameFirstOnly(reg, file, mtime1, mtime2) ==
    \* a faulty variant: only mtime1 is looked up in what is stored
    IF mtime1 = mtime2 THEN reg
    ELSE LET key   == getKey(file)
             pairs == PairsOf(reg, key)
         IN  IF \E e \in pairs : e = mtime1
             THEN [reg EXCEPT ![key] = pairs \cup {mtime1, mtime2}]
             ELSE [reg EXCEPT ![key] = {mtime1, mtime2}]

markChangesAreSameKeeping(reg, file, mtime1, mtime2) ==
    \* a faulty variant: what is stored is never discarded
    IF mtime1 = mtime2 THEN reg
    ELSE [reg EXCEPT ![getKey(file)] = PairsOf(reg, getKey(file)) \cup {mtime1, mtime2}]

isMarkedAsSameChangesAny(reg, file, mtimes) ==
    \* a faulty variant: one stored timestamp is enough
    LET pairs == PairsOf(reg, getKey(file))
    IN  IF \E i \in 1..Len(mtimes) : mtimes[i] \in pairs
        THEN "EVEN" ELSE "undefined"

\* The stored array never holds a value twice and is only asked for
\* membership (some, indexOf), so it is kept as a set.
markChangesAreSame(reg, file, mtime1, mtime2) ==
    IF mtime1 = mtime2 THEN reg
    ELSE LET key   == getKey(file)
             pairs == PairsOf(reg, key)
         IN  IF \E e \in pairs : e = mtime1 \/ e = mtime2
             THEN [reg EXCEPT ![key] = pairs \cup {mtime1, mtime2}]
             ELSE [reg EXCEPT ![key] = {mtime1, mtime2}]

unmarkChangesKeeping(reg, file) == reg     \* a faulty variant: nothing is deleted

unmarkChanges(reg, file) == [reg EXCEPT ![getKey(file)] = {}]

isMarkedAsSameChanges(reg, file, mtimes) ==
    LET pairs == PairsOf(reg, getKey(file))
    IN  IF \A i \in 1..Len(mtimes) : mtimes[i] \in pairs
        THEN "EVEN" ELSE "undefined"

NoOp == [op |-> "none"]

NoWatch == [file |-> [isString |-> TRUE, path |-> <<"a.md">>], t1 |-> 0, t2 |-> 0]

InitRegistry ==
    /\ sameChangePairs = [k \in Keys |-> {}]
    /\ lastOp = NoOp
    /\ unmarkedSince = [k \in Keys |-> FALSE]
    /\ watch = NoWatch
    /\ watchState = "off"

CallMarkChangesAreSame ==
    \E file \in FileArgs, mtime1, mtime2 \in Times :
        /\ sameChangePairs' = markChangesAreSame(sameChangePairs, file, mtime1, mtime2)
        /\ lastOp' = [op |-> "mark", file |-> file, mtime1 |-> mtime1,
                      mtime2 |-> mtime2]
        /\ unmarkedSince' = IF mtime1 = mtime2 THEN unmarkedSince
                            ELSE [unmarkedSince EXCEPT ![getKey(file)] = FALSE]
        /\ UNCHANGED <<watch, watchState>>

CallUnmarkChanges ==
    \E file \in FileArgs :
        /\ sameChangePairs' = unmarkChanges(sameChangePairs, file)
        /\ lastOp' = [op |-> "unmark", file |-> file]
        /\ unmarkedSince' = [unmarkedSince EXCEPT ![getKey(file)] = TRUE]
        /\ UNCHANGED <<watch, watchState>>

(***************************************************************************)
(* The same two calls, with the history of one watched pair instead of the *)
(* last call: markChangesAreSame(watch.file, watch.t1, watch.t2) makes the *)
(* pair "registered"; a later mark for the same key whose two timestamps   *)
(* are different and both absent from the stored set makes it "broken";    *)
(* unmarkChanges for the key makes it "unregistered".                      *)
(***************************************************************************)
WatchAfterMark(file, mtime1, mtime2) ==
    IF file = watch.file /\ mtime1 = watch.t1 /\ mtime2 = watch.t2
    THEN "registered"
    ELSE IF getKey(file) # getKey(watch.file) \/ mtime1 = mtime2
              \/ watchState = "unregistered"
    THEN watchState
    ELSE IF \E e \in PairsOf(sameChangePairs, getKey(file)) :
                e = mtime1 \/ e = mtime2
    THEN watchState
    ELSE "broken"

InitWatch ==
    /\ sameChangePairs = [k \in Keys |-> {}]
    /\ lastOp = NoOp
    /\ unmarkedSince = [k \in Keys |-> FALSE]
    /\ watch \in {w \in [file : FileArgs, t1 : Times, t2 : Times] : w.t1 # w.t2}
    /\ watchState = "unregistered"

WatchMarkChangesAreSame ==
    \E file \in FileArgs, mtime1, mtime2 \in Times :
        /\ sameChangePairs' = markChangesAreSame(sameChangePairs, file, mtime1, mtime2)
        /\ watchState' = WatchAfterMark(file, mtime1, mtime2)
        /\ UNCHANGED <<lastOp, unmarkedSince, watch>>

WatchUnmarkChanges ==
    \E file \in FileArgs :
        /\ sameChangePairs' = unmarkChanges(sameChangePairs, file)
        /\ watchState' = IF getKey(file) = getKey(watch.file)
                          THEN "unregistered" ELSE watchState
        /\ UNCHANGED <<lastOp, unmarkedSince, watch>>

(***************************************************************************)
(* The registry called for the files of two paths, as strings or as        *)
(* objects, the first path with or without a prefix.                       *)
(***************************************************************************)
PartitionPaths == Paths \cup {<<"b.md">>}
PartitionFiles == [isString : BOOLEAN, path : PartitionPaths]
PartitionKeys == {getKey(f) : f \in PartitionFiles}
PartitionTimes == 1..3
PartitionLists == UNION {[1..n -> PartitionTimes] : n \in 0..2}

InitPartition ==
    /\ sameChangePairs = [k \in PartitionKeys |-> {}]
    /\ lastOp = NoOp
    /\ unmarkedSince = [k \in Keys |-> FALSE]
    /\ watch = NoWatch
    /\ watchState = "off"

PartitionMark ==
    \E file \in PartitionFiles, mtime1, mtime2 \in PartitionTimes :
        /\ sameChangePairs' = markChangesAreSame(sameChangePairs, file, mtime1, mtime2)
        /\ lastOp' = [op |-> "mark", file |-> file, mtime1 |-> mtime1,
                      mtime2 |-> mtime2]
        /\ UNCHANGED <<unmarkedSince, watch, watchState>>

PartitionUnmark ==
    \E file \in PartitionFiles :
        /\ sameChangePairs' = unmarkChanges(sameChangePairs, file)
        /\ lastOp' = [op |-> "unmark", file |-> file]
        /\ UNCHANGED <<unmarkedSince, watch, watchState>>

(***************************************************************************)
(* compareFileFreshness.  An argument is absent ("undefined" or "null") or *)
(* a file or entry with a path and a modification time, 0 when unset.      *)
(***************************************************************************)
Present(file, mtime) == [is |-> "value", file |-> file, mtime |-> mtime]

compareFileFreshness(reg, baseFile, checkTarget) ==
    IF baseFile.is = "undefined" /\ checkTarget.is # "value" THEN "EVEN"
    ELSE IF baseFile.is # "value" THEN "TARGET_IS_NEW"
    ELSE IF checkTarget.is # "value" THEN "BASE_IS_NEW"
    ELSE LET modifiedBase   == baseFile.mtime
             modifiedTarget == checkTarget.mtime
         IN  IF /\ modifiedBase # 0 /\ modifiedTarget # 0
                /\ isMarkedAsSameChanges(reg, baseFile.file,
                                         <<modifiedBase, modifiedTarget>>) = "EVEN"
             THEN "EVEN"
             ELSE compareMTime(FromInt(modifiedBase), FromInt(modifiedTarget))

(***************************************************************************)
(* The engine's operations, on one path.  The storage and the database are *)
(* collaborators: the storage holds nothing, a folder or a file at the     *)
(* path; the database holds no document or one document, which may carry   *)
(* either deletion marker and whose body may fail to load.                 *)
(***************************************************************************)
MTimes == {0, 1000, 1500, 5000}
Contents == {"x", "y"}
Revs == {"2-b", "2-c"}
EnginePath == <<"a.md">>

NoItem == [kind |-> "none", mtime |-> 0, body |-> ""]
FolderItem == [kind |-> "folder", mtime |-> 0, body |-> ""]
FileItem(mtime, body) == [kind |-> "file", mtime |-> mtime, body |-> body]
StorageStates == {NoItem, FolderItem} \cup {FileItem(m, b) : m \in MTimes, b \in Contents}

NoDoc == [exists |-> FALSE, deleted |-> FALSE, underscoreDeleted |-> FALSE,
          mtime |-> 0, data |-> "", loadable |-> FALSE]
DocStates ==
    {NoDoc} \cup [exists : {TRUE}, deleted : BOOLEAN, underscoreDeleted : BOOLEAN,
                  mtime : MTimes, data : Contents, loadable : BOOLEAN]

\* The file argument of the registry for the path: an object with the path.
PathObject == [isString |-> FALSE, path |-> EnginePath]

conflictDefersInverted(revs, setting) ==
    \* a faulty variant: the setting is read the wrong way round
    revs # {} /\ setting

\* 1. Check if it already conflicted: with conflicts and without the setting
\* the path is queued for a conflict check and nothing is written.
conflictDefers(revs, setting) == revs # {} /\ ~setting

isDocContentSameAlways(docData, body) ==
    \* a faulty variant: the contents are never told apart
    TRUE

\* isDocContentSame(getDocDataAsArray(entry.data), readFile.body)
isDocContentSame(docData, body) == docData = body

comparesFreshnessNever(existOnStorage, force) ==
    \* a faulty variant: the document is applied without any comparison
    FALSE

comparesFreshnessForced(existOnStorage, force) ==
    \* a faulty variant: force does not bypass the comparison
    existOnStorage

\* if (existOnStorage && !force)
comparesFreshness(existOnStorage, force) == existOnStorage /\ ~force

existsAsFolderNever(item) == FALSE  \* a faulty variant: folders are not noticed

\* existDoc && existDoc.isFolder
existsAsFolder(item) == item.kind = "folder"

isExistOnDBOneMarker(doc) ==
    \* a faulty variant: only one of the two deletion markers is read
    ~doc.underscoreDeleted

\* const existOnDB = !(docEntry._deleted || docEntry.deleted || false)
isExistOnDB(doc) == ~(doc.underscoreDeleted \/ doc.deleted)

fetchEntryFromMetaUnchecked(doc) ==
    \* a faulty variant: the missing body goes unnoticed
    TRUE

\* db.fetchEntryFromMeta(docEntry) gives the document with its body, or false.
fetchEntryFromMeta(doc) == doc.loadable

fileEventModeSwapped(file) ==
    \* a faulty variant: the two modes are exchanged
    IF file THEN "create" ELSE "modify"

\* const mode = file == null ? "create" : "modify"
fileEventMode(file) == IF file THEN "modify" ELSE "create"

\* What a call leaves: its result, the calls it made on the collaborators in
\* order, the storage and the registry.
Outcome(ret, effects, item, reg) ==
    [ret |-> ret, effects |-> effects, storage |-> item, reg |-> reg]

\* dbToStorage(entryInfo, info, force) for the path, started with the storage
\* holding `item`, the database `doc` and `revs`, and the registry `reg`.
\* `info` is "null", "stub" or "path"; `readOk` is whether readStubContent
\* finds the file, `writeRet` what writeFileAuto returns.
dbToStorage(item, doc, revs, setting, reg, info, force, readOk, writeRet) ==
    LET file == IF info = "path" THEN item.kind = "file" ELSE info = "stub"
        mode == fileEventMode(file)
        existOnDB == isExistOnDB(doc)
        existOnStorage == item.kind # "none"
        written == IF writeRet THEN FileItem(doc.mtime, doc.data) ELSE item
        apply == Outcome(IF writeRet THEN "true" ELSE "false",
                         <<"ensureDir", "writeFileAuto", "touched",
                           "triggerFileEvent", mode>>, written, reg)
        unchanged(ret) == Outcome(ret, <<>>, item, reg)
    IN  IF ~doc.exists THEN unchanged("false")
        ELSE IF conflictDefers(revs, setting)
        THEN Outcome("true", <<"queueConflictCheckIfOpen">>, item, reg)
        ELSE IF existsAsFolder(item) THEN unchanged("true")
        ELSE IF ~existOnDB /\ ~existOnStorage THEN unchanged("true")
        ELSE IF ~existOnDB /\ existOnStorage
        THEN Outcome("true", <<"deleteVaultItem">>, NoItem, reg)
        ELSE IF ~fetchEntryFromMeta(doc) THEN unchanged("false")
        ELSE IF comparesFreshness(existOnStorage, force)
        THEN IF compareFileFreshness(reg, Present(PathObject, item.mtime),
                                     Present(PathObject, doc.mtime)) # "EVEN"
             THEN IF ~readOk THEN unchanged("raised")
                  ELSE IF isDocContentSame(doc.data, item.body)
                  THEN Outcome("true", <<>>, item,
                               markChangesAreSame(reg, PathObject, doc.mtime,
                                                  item.mtime))
                  ELSE apply
             ELSE unchanged("true")
        ELSE apply

NoTrip == [phase |-> "none", content |-> ""]
NoRevisions == [rev \in Revs |-> NoDoc]

\* A path without a document has no conflicting revisions.
InitEngine ==
    /\ storage \in StorageStates
    /\ dbDoc \in DocStates
    /\ conflictedRevs \in SUBSET Revs
    /\ dbDoc.exists \/ conflictedRevs = {}
    /\ writeDocumentsIfConflicted \in BOOLEAN
    /\ lastCall = [op |-> "none"]
    /\ roundTrip = NoTrip
    /\ syncWrites = -1
    /\ revisions = NoRevisions /\ fileRev = "none"

EngineIdle ==
    /\ storage = NoItem /\ dbDoc = NoDoc /\ conflictedRevs = {}
    /\ writeDocumentsIfConflicted = FALSE
    /\ lastCall = [op |-> "none"]
    /\ roundTrip = NoTrip
    /\ syncWrites = -1
    /\ revisions = NoRevisions /\ fileRev = "none"

\* A storage file and a live document with the same content.
IdenticalContent(item, doc) ==
    /\ item.kind = "file"
    /\ doc.exists /\ doc.loadable /\ ~doc.deleted /\ ~doc.underscoreDeleted
    /\ item.body = doc.data

\* The count of writes after a call for the file with force = false and
\* onlyChunks = false that has or has not written; any other call leaves the
\* case.
WritesAfter(count, plain, wrote) ==
    IF count < 0 \/ ~plain THEN -1
    ELSE IF wrote /\ count < 2 THEN count + 1
    ELSE count

\* The same without conflicting revisions, for the calls of storeFileToDB.
InitStore ==
    /\ storage \in StorageStates
    /\ dbDoc \in DocStates
    /\ conflictedRevs = {}
    /\ writeDocumentsIfConflicted = FALSE
    /\ lastCall = [op |-> "none"]
    /\ roundTrip = NoTrip
    /\ syncWrites = IF IdenticalContent(storage, dbDoc) THEN 0 ELSE -1
    /\ revisions = NoRevisions /\ fileRev = "none"

\* The verdict of compareFileFreshness(existDoc, docEntry), or of
\* compareFileFreshness(file, entry), on a storage file and a document.
Verdict(reg, item, doc) ==
    compareFileFreshness(reg, Present(PathObject, item.mtime),
                         Present(PathObject, doc.mtime))

CallDbToStorage ==
    \E info \in {"null", "stub", "path"}, force, readOk, writeRet \in BOOLEAN :
        \E out \in {dbToStorage(storage, dbDoc, conflictedRevs,
                                writeDocumentsIfConflicted, sameChangePairs,
                                info, force, readOk, writeRet)} :
            /\ storage' = out.storage
            /\ sameChangePairs' = out.reg
            /\ lastCall' = [op |-> "dbToStorage", info |-> info, force |-> force,
                            ret |-> out.ret, effects |-> out.effects,
                            storageBefore |-> storage,
                            verdict |-> Verdict(sameChangePairs, storage, dbDoc)]
            /\ syncWrites' = WritesAfter(syncWrites, ~force,
                                         Len(out.effects) > 1 /\ out.ret = "true")
            /\ roundTrip' = IF force \/ roundTrip.phase = "none" THEN NoTrip
                            ELSE [roundTrip EXCEPT !.phase =
                                     IF @ = "stored" THEN "once" ELSE "twice"]
            /\ UNCHANGED <<dbDoc, conflictedRevs, writeDocumentsIfConflicted,
                           lastOp, unmarkedSince, watch, watchState,
                           revisions, fileRev>>

(***************************************************************************)
(* $anyProcessReplicatedDoc inside its lock, for the path.  The two        *)
(* predicates answer `isTargetFile` and `ignored`.  The notification and   *)
(* the call of dbToStorage are listed before what dbToStorage does.        *)
(***************************************************************************)
targetIsFolderNever(item) == FALSE  \* a faulty variant: folders are not noticed

\* targetFile && targetFile.isFolder
targetIsFolder(item) == item.kind = "folder"

anyProcessReplicatedDoc(item, doc, revs, setting, reg, isTargetFile, ignored, readOk, writeRet) ==
    IF ~isTargetFile THEN Outcome("false", <<>>, item, reg)
    ELSE IF ignored THEN Outcome("false", <<>>, item, reg)
    ELSE IF targetIsFolder(item) THEN Outcome("true", <<>>, item, reg)
    ELSE LET targetFile == IF item.kind = "none" THEN "null" ELSE "stub"
             out == dbToStorage(item, doc, revs, setting, reg, targetFile,
                                FALSE, readOk, writeRet)
         IN  [out EXCEPT !.effects = <<"conflict-cancelled", "dbToStorage">> \o @]

CallAnyProcessReplicatedDoc ==
    \E isTargetFile, ignored, readOk, writeRet \in BOOLEAN :
        \E out \in {anyProcessReplicatedDoc(storage, dbDoc, conflictedRevs,
                         writeDocumentsIfConflicted, sameChangePairs,
                         isTargetFile, ignored, readOk, writeRet)} :
            /\ storage' = out.storage
            /\ sameChangePairs' = out.reg
            /\ lastCall' = [op |-> "anyProcessReplicatedDoc",
                            isTargetFile |-> isTargetFile, ignored |-> ignored,
                            ret |-> out.ret, effects |-> out.effects,
                            storageBefore |-> storage]
            /\ roundTrip' = NoTrip
            /\ syncWrites' = -1
            /\ UNCHANGED <<dbDoc, conflictedRevs, writeDocumentsIfConflicted,
                           lastOp, unmarkedSince, watch, watchState,
                           revisions, fileRev>>

(***************************************************************************)
(* storeFileToDB.  `info` is "null" (no file), "path" (a path, resolved by *)
(* getFileStub), "stub" (a stub of the file), "full" (the file with its    *)
(* body) or "internal" (a stub of an internal file).  fetchEntry gives the *)
(* document with its body, or false.  db.store and db.createChunks answer  *)
(* `dbRet`; a successful db.store leaves the file as the document.         *)
(***************************************************************************)
StoreInfos == {"null", "path", "stub", "full", "internal"}

NoDbCall == [fn |-> "none", force |-> FALSE]
DbCall(fn, force) == [fn |-> fn, force |-> force]

\* The document db.store(readFile) leaves.
StoredDocWithoutMTime(readFile) ==
    \* a faulty variant: the document does not get the file's modification time
    [exists |-> TRUE, deleted |-> FALSE, underscoreDeleted |-> FALSE,
     mtime |-> 0, data |-> readFile.body, loadable |-> TRUE]

StoredDoc(readFile) ==
    [exists |-> TRUE, deleted |-> FALSE, underscoreDeleted |-> FALSE,
     mtime |-> readFile.mtime, data |-> readFile.body, loadable |-> TRUE]

LiveEntryOneMarker(doc) ==
    \* a faulty variant: only one of the two deletion markers is read
    doc.exists /\ doc.loadable /\ ~doc.underscoreDeleted

isInternalNever(info) == FALSE  \* a faulty variant: internal files pass

\* file.isInternal
isInternal(info) == info = "internal"

\* !entry || entry.deleted || entry._deleted, negated
LiveEntry(doc) ==
    doc.exists /\ doc.loadable /\ ~doc.deleted /\ ~doc.underscoreDeleted

\* readFileFromStub: a file that carries its body is not read again;
\* otherwise readStubContent is called, and a falsy answer raises.
readFileFromStub(info, readOk) == info = "full" \/ readOk

createsChunksNever(onlyChunks) ==
    \* a faulty variant: the whole document is stored in every case
    FALSE

\* if (onlyChunks) db.createChunks(...) else db.store(...)
createsChunks(onlyChunks) == onlyChunks

\* What a call leaves: its result, the calls it made before the database
\* call in order, the database call, the document and the registry.
StoreOutcome(ret, calls, dbCall, doc, reg) ==
    [ret |-> ret, calls |-> calls, dbCall |-> dbCall, doc |-> doc, reg |-> reg]

storeFileToDB(item, doc, reg, info, force, onlyChunks, readOk, dbRet) ==
    LET file == info \in {"stub", "full", "internal"}
                    \/ (info = "path" /\ item.kind = "file")
        canRead == readFileFromStub(info, readOk)
        rejected == StoreOutcome("false", <<>>, NoDbCall, doc, reg)
        raised(calls) == StoreOutcome("raised", calls, NoDbCall, doc, reg)
        answer == IF dbRet THEN "true" ELSE "false"
        store(calls, f) == StoreOutcome(answer, calls, DbCall("store", f),
                                        IF dbRet THEN StoredDoc(item) ELSE doc, reg)
        createChunks(calls, f) ==
            StoreOutcome(answer, calls, DbCall("createChunks", f), doc, reg)
        fetched == <<"fetchEntry", "readFileFromStub">>
        newer == <<"fetchEntry", "compareFileFreshness", "readFileFromStub">>
        even == <<"fetchEntry", "compareFileFreshness", "readFileFromStub",
                  "isDocContentSame">>
    IN  IF ~file THEN rejected
        ELSE IF isInternal(info) THEN rejected
        ELSE IF ~LiveEntry(doc)
        THEN IF ~canRead THEN raised(fetched)
             ELSE IF ~createsChunks(onlyChunks) THEN store(fetched, FALSE)
             ELSE createChunks(fetched, FALSE)
        ELSE IF ~force /\ ~onlyChunks
        THEN IF Verdict(reg, item, doc) # "EVEN"
             THEN IF ~canRead THEN raised(newer) ELSE store(newer, FALSE)
             ELSE IF ~canRead THEN raised(newer)
                  ELSE IF isDocContentSame(doc.data, item.body)
                  THEN StoreOutcome("true", even \o <<"markChangesAreSame">>,
                                    NoDbCall, doc,
                                    markChangesAreSame(reg, PathObject,
                                                       item.mtime, doc.mtime))
                  ELSE store(even, FALSE)
        ELSE IF ~canRead THEN raised(fetched)
             ELSE IF createsChunks(onlyChunks) THEN createChunks(fetched, TRUE)
             ELSE store(fetched, TRUE)

\* A stub, or a file with its body, describes the file the storage holds.
CallStoreFileToDB ==
    \E info \in StoreInfos, force, onlyChunks, readOk, dbRet \in BOOLEAN :
        \E out \in {storeFileToDB(storage, dbDoc, sameChangePairs, info, force,
                                  onlyChunks, readOk, dbRet)} :
            /\ info \in {"stub", "full", "internal"} => storage.kind = "file"
            /\ dbDoc' = out.doc
            /\ sameChangePairs' = out.reg
            /\ lastCall' = [op |-> "storeFileToDB", info |-> info, force |-> force,
                            onlyChunks |-> onlyChunks, ret |-> out.ret,
                            calls |-> out.calls,
                            dbCall |-> out.dbCall, docBefore |-> dbDoc,
                            readable |-> readFileFromStub(info, readOk),
                            verdict |-> Verdict(sameChangePairs, storage, dbDoc)]
            /\ syncWrites' = WritesAfter(syncWrites,
                                         /\ ~force /\ ~onlyChunks
                                         /\ info \in {"path", "stub", "full"},
                                         out.dbCall.fn = "store" /\ out.ret = "true")
            /\ roundTrip' = IF /\ storage.kind = "file" /\ ~dbDoc.exists
                               /\ out.dbCall.fn = "store" /\ out.ret = "true"
                            THEN [phase |-> "stored", content |-> storage.body]
                            ELSE NoTrip
            /\ UNCHANGED <<storage, conflictedRevs, writeDocumentsIfConflicted,
                           lastOp, unmarkedSince, watch, watchState,
                           revisions, fileRev>>

(***************************************************************************)
(* The document of the path with its revisions.  The database keeps a      *)
(* tree of revisions; its leaves are the revisions of Revs, each absent or *)
(* a document, live or deleted.  A fetch without a revision gives the      *)
(* winning leaf: the live leaf with the highest revision, or the deleted   *)
(* leaf with the highest revision when none is live.  getConflictedRevs    *)
(* gives the other live leaves.  db.delete answers `delRet`; when it       *)
(* succeeds, the revision it was given (the winning one when none was      *)
(* given) is left deleted.                                                 *)
(***************************************************************************)
RevMTimes == {1000, 5000}
RevLeaves ==
    {NoDoc} \cup [exists : {TRUE}, deleted : {FALSE}, underscoreDeleted : BOOLEAN,
                  mtime : RevMTimes, data : Contents, loadable : {TRUE}]

RevRank(rev) == IF rev = "2-b" THEN 1 ELSE 2

LiveRevs(revs) == {r \in Revs : revs[r].exists /\ ~revs[r].underscoreDeleted}
PresentRevs(revs) == {r \in Revs : revs[r].exists}

Highest(set) == CHOOSE r \in set : \A q \in set : RevRank(q) <= RevRank(r)

\* entry._rev of the entry a fetch without a revision gives
WinnerRev(revs) ==
    IF LiveRevs(revs) # {} THEN Highest(LiveRevs(revs))
    ELSE IF PresentRevs(revs) # {} THEN Highest(PresentRevs(revs))
    ELSE "none"

\* db.fetchEntryMeta(path, undefined, true)
WinnerDoc(revs) == IF WinnerRev(revs) = "none" THEN NoDoc ELSE revs[WinnerRev(revs)]

\* db.getConflictedRevs(path)
ConflictedRevsOf(revs) == LiveRevs(revs) \ {WinnerRev(revs)}

\* db.delete(file, rev)
DeleteRev(revs, rev) == [revs EXCEPT ![rev].underscoreDeleted = TRUE]

\* The storage holds nothing, or the file dbToStorage wrote from a live
\* revision: the winning one, or one that was winning before a conflicting
\* revision arrived, which left the file alone.
InitRevisions ==
    /\ revisions \in [Revs -> RevLeaves]
    /\ \/ storage = NoItem /\ fileRev = "none"
       \/ \E r \in LiveRevs(revisions) :
              /\ storage = FileItem(revisions[r].mtime, revisions[r].data)
              /\ fileRev = r
    /\ dbDoc = WinnerDoc(revisions)
    /\ conflictedRevs = ConflictedRevsOf(revisions)
    /\ writeDocumentsIfConflicted \in BOOLEAN
    /\ lastCall = [op |-> "none"]
    /\ roundTrip = NoTrip
    /\ syncWrites = -1

\* What a call leaves: its result, the calls it made before db.delete in
\* order, the revision db.delete removed ("none" when it was not called),
\* whether db.delete was given a revision, and the revisions.
DeleteOutcome(ret, calls, rev, withRev, revs) ==
    [ret |-> ret, calls |-> calls, deletedRev |-> rev, withRev |-> withRev,
     revisions |-> revs]

\* deleteFileFromDB(info).  `info` is "null", "path", "stub" or "internal".
deleteFileFromDB(item, revs, info, delRet) ==
    LET file == info \in {"stub", "internal"} \/ (info = "path" /\ item.kind = "file")
        entry == WinnerDoc(revs)
        rejected == DeleteOutcome("false", <<>>, "none", FALSE, revs)
        fetched == <<"fetchEntry">>
        checked == <<"fetchEntry", "getConflictedRevs">>
        answer == IF delRet THEN "true" ELSE "false"
        after == IF delRet THEN DeleteRev(revs, WinnerRev(revs)) ELSE revs
    IN  IF ~file THEN rejected
        ELSE IF isInternal(info) THEN rejected
        ELSE IF ~LiveEntry(entry)
        THEN DeleteOutcome("false", fetched, "none", FALSE, revs)
        ELSE IF ConflictedRevsOf(revs) # {}
        THEN DeleteOutcome(answer, checked, WinnerRev(revs), TRUE, after)
        ELSE DeleteOutcome(answer, checked, WinnerRev(revs), FALSE, after)

CallDeleteFileFromDB ==
    \E info \in {"null", "path", "stub", "internal"}, delRet \in BOOLEAN :
        \E out \in {deleteFileFromDB(storage, revisions, info, delRet)} :
            /\ info \in {"stub", "internal"} => storage.kind = "file"
            /\ revisions' = out.revisions
            /\ dbDoc' = WinnerDoc(out.revisions)
            /\ conflictedRevs' = ConflictedRevsOf(out.revisions)
            /\ lastCall' = [op |-> "deleteFileFromDB", info |-> info,
                            ret |-> out.ret, calls |-> out.calls,
                            deletedRev |-> out.deletedRev,
                            withRev |-> out.withRev,
                            docBefore |-> dbDoc,
                            revisionsBefore |-> revisions]
            /\ UNCHANGED <<storage, fileRev, writeDocumentsIfConflicted,
                           roundTrip, syncWrites, regVars>>

\* deleteFileFromDB on a path whose document has one revision, the document
\* itself, flagged by either marker or not.
OneRevision(doc) == [rev \in Revs |-> IF rev = "2-b" THEN doc ELSE NoDoc]

CallDeleteFileFromDBOfDocument ==
    \E info \in {"null", "path", "stub", "internal"}, delRet \in BOOLEAN :
        \E out \in {deleteFileFromDB(storage, OneRevision(dbDoc), info, delRet)} :
            /\ info \in {"stub", "internal"} => storage.kind = "file"
            /\ dbDoc' = out.revisions["2-b"]
            /\ lastCall' = [op |-> "deleteFileFromDB", info |-> info,
                            ret |-> out.ret, calls |-> out.calls,
                            deletedRev |-> out.deletedRev,
                            withRev |-> out.withRev,
                            docBefore |-> dbDoc,
                            revisionsBefore |-> OneRevision(dbDoc)]
            /\ roundTrip' = NoTrip
            /\ syncWrites' = -1
            /\ UNCHANGED <<storage, fileRev, revisions, conflictedRevs,
                           writeDocumentsIfConflicted, regVars>>

\* dbToStorageWithSpecificRev(info, rev, force) on the revisions `revs`.
\* fetchEntryMeta(file, rev, true) gives the document at `rev`; for a deleted
\* revision `metaFound` says whether it gives it.  What it gives is handed
\* to dbToStorage, which fetches the metadata again by the path alone.
dbToStorageWithSpecificRev(item, revs, setting, reg, info, rev, force, metaFound, readOk, writeRet) ==
    LET file == info = "stub" \/ (info = "path" /\ item.kind = "file")
        docEntry == /\ revs[rev].exists
                    /\ revs[rev].underscoreDeleted => metaFound
    IN  IF ~file THEN Outcome("false", <<>>, item, reg)
        ELSE IF ~docEntry THEN Outcome("false", <<>>, item, reg)
        ELSE dbToStorage(item, WinnerDoc(revs), ConflictedRevsOf(revs), setting,
                         reg, "stub", force, readOk, writeRet)

\* The revision the storage file comes from after a call with these effects.
FileRevAfter(out, revs, known) ==
    IF out.storage = NoItem THEN "none"
    ELSE IF out.ret = "true" /\ Len(out.effects) > 1 THEN WinnerRev(revs)
    ELSE known

CallDbToStorageWithSpecificRev ==
    \E info \in {"null", "path", "stub"}, rev \in Revs,
       force, metaFound, readOk, writeRet \in BOOLEAN :
        \E out \in {dbToStorageWithSpecificRev(storage, revisions,
                       writeDocumentsIfConflicted, sameChangePairs, info, rev,
                       force, metaFound, readOk, writeRet)} :
            /\ info = "stub" => storage.kind = "file"
            /\ storage' = out.storage
            /\ sameChangePairs' = out.reg
            /\ fileRev' = FileRevAfter(out, revisions, fileRev)
            /\ lastCall' = [op |-> "dbToStorageWithSpecificRev", info |-> info,
                            rev |-> rev, force |-> force, ret |-> out.ret,
                            effects |-> out.effects, storageBefore |-> storage]
            /\ UNCHANGED <<revisions, dbDoc, conflictedRevs,
                           writeDocumentsIfConflicted, roundTrip, syncWrites,
                           lastOp, unmarkedSince, watch, watchState>>

\* resolveConflictedByDeletingRevision(info, rev): deleteRevisionFromDB, which
\* is db.delete(info, rev), then dbToStorageWithSpecificRev(info, rev, true).
\* It returns false when either fails and undefined otherwise.  With force
\* set the storage file is not read.
CallResolveConflictedByDeletingRevision ==
    \E info \in {"path", "stub"}, rev \in Revs,
       delRet, metaFound, writeRet \in BOOLEAN :
        \E after \in {IF delRet /\ rev \in LiveRevs(revisions)
                      THEN DeleteRev(revisions, rev) ELSE revisions} :
        \E out \in {IF after # revisions
                    THEN dbToStorageWithSpecificRev(storage, after,
                             writeDocumentsIfConflicted, sameChangePairs, info,
                             rev, TRUE, metaFound, TRUE, writeRet)
                    ELSE Outcome("false", <<>>, storage, sameChangePairs)} :
            /\ info = "stub" => storage.kind = "file"
            /\ revisions' = after
            /\ dbDoc' = WinnerDoc(after)
            /\ conflictedRevs' = ConflictedRevsOf(after)
            /\ storage' = out.storage
            /\ sameChangePairs' = out.reg
            /\ fileRev' = FileRevAfter(out, after, fileRev)
            /\ lastCall' = [op |-> "resolveConflictedByDeletingRevision",
                            info |-> info, rev |-> rev,
                            ret |-> IF out.ret = "true" THEN "undefined"
                                    ELSE out.ret,
                            effects |-> out.effects, storageBefore |-> storage,
                            revisionsBefore |-> revisions]
            /\ UNCHANGED <<writeDocumentsIfConflicted, roundTrip, syncWrites,
                           lastOp, unmarkedSince, watch, watchState>>

(***************************************************************************)
(* compareFileFreshness called on its own.  Either argument is undefined,  *)
(* null, or a file or entry object; the registry holds what earlier calls  *)
(* of markChangesAreSame for such objects have left.                       *)
(***************************************************************************)
Absent(how) == [is |-> how, file |-> PathObject, mtime |-> 0]

FileObjects == {f \in FileArgs : ~f.isString}
FreshnessArgs ==
    {Absent("undefined"), Absent("null")}
        \cup {Present(f, m) : f \in FileObjects, m \in MTimes}

FreshnessMark ==
    \E file \in FileObjects, mtime1, mtime2 \in MTimes :
        /\ sameChangePairs' = markChangesAreSame(sameChangePairs, file, mtime1, mtime2)
        /\ UNCHANGED <<lastOp, unmarkedSince, watch, watchState, engVars>>

CallCompareFileFreshness ==
    \E baseFile, checkTarget \in FreshnessArgs :
        /\ lastCall' = [op |-> "compareFileFreshness", baseFile |-> baseFile,
                        checkTarget |-> checkTarget, reg |-> sameChangePairs,
                        ret |-> compareFileFreshness(sameChangePairs, baseFile,
                                                     checkTarget)]
        /\ UNCHANGED <<regVars, storage, dbDoc, conflictedRevs,
                       writeDocumentsIfConflicted, roundTrip, syncWrites,
                       revisions, fileRev>>

(***************************************************************************)
(* The two entry points, $anyHandlerProcessesFileEvent and                 *)
(* $anyProcessReplicatedDoc.  Each call is a request; its steps are the    *)
(* stretches between two awaits.  serialized(key, proc) of octagonal-wheels *)
(* runs the procs of one key one after the other, in the order of the      *)
(* calls: a call is queued with its key and runs once no older call with   *)
(* the same key is unfinished.  A string built from parts is the sequence  *)
(* of the parts.  A request may also be a per-file task of createAllChunks *)
(* at its call of storeFileToDB.                                           *)
(***************************************************************************)
NumReqs == 2

ReqIds == 1..NumReqs
LockPaths == {<<"a.md">>, <<"b.md">>}
EventTypes == {"CREATE", "CHANGED", "DELETE", "INTERNAL", "RENAME"}
\* What a call gives back: true, false, or an exception.
Returns == {"true", "false", "raised"}

IdleReq == [pc |-> "idle"]

\* What the switch calls: nothing, or an operation with the arguments it
\* gets; storeFileToDB(item.args.file) leaves force and onlyChunks at false.
NoCall == [fn |-> "none", force |-> FALSE, onlyChunks |-> FALSE]
CallOf(fn) == [fn |-> fn, force |-> FALSE, onlyChunks |-> FALSE]

fileEventLockKeyWithType(item) ==
    \* a faulty variant: the event type is part of the key
    <<"processFileEvent-", item.type>> \o item.path

\* const lockKey = `processFileEvent-${path}`
fileEventLockKey(item) == <<"processFileEvent-">> \o item.path

\* serialized(entry.path, ...)
replicatedDocLockKey(entry) == entry.path

KeyOf(r) ==
    IF req[r].kind = "fileEvent" THEN fileEventLockKey(req[r])
    ELSE replicatedDocLockKey(req[r])

\* Whether some unfinished call of serialized() holds the key.
KeyBusy(queue, key) == \E i \in 1..Len(queue) : queue[i].key = key

\* The oldest unfinished call with the key.
FirstOf(queue, key) ==
    queue[CHOOSE i \in 1..Len(queue) :
              /\ queue[i].key = key
              /\ \A j \in 1..(i - 1) : queue[j].key # key].req

Without(queue, r) == SelectSeq(queue, LAMBDA e : e.req # r)

\* serialized(key, proc) is called: proc starts at once when the key is free.
Serialize(r, item, key) ==
    /\ serializedQueue' = Append(serializedQueue, [key |-> key, req |-> r])
    /\ req' = [req EXCEPT ![r] =
                 [item EXCEPT !.pc = IF KeyBusy(serializedQueue, key)
                                     THEN "queued" ELSE "critical",
                              !.locked = TRUE]]

\* The call before it with the same key has finished: proc starts.
SerializedStart(r) ==
    /\ req[r].pc = "queued"
    /\ FirstOf(serializedQueue, KeyOf(r)) = r
    /\ req' = [req EXCEPT ![r].pc = "critical"]
    /\ UNCHANGED serializedQueue

\* $anyHandlerProcessesFileEvent is called and awaits $$isTargetFile(path).
FileEventCall(r) ==
    /\ req[r].pc = "idle"
    /\ \E path \in LockPaths, type \in EventTypes :
          req' = [req EXCEPT ![r] = [kind |-> "fileEvent", path |-> path,
                                     type |-> type, pc |-> "checking",
                                     locked |-> FALSE]]
    /\ UNCHANGED serializedQueue

\* The path is no target, or is ignored: false, and serialized() is not called.
FileEventRejected(r) ==
    /\ req[r].pc = "checking"
    /\ \E isTargetFile, ignored \in BOOLEAN :
          /\ ~isTargetFile \/ ignored
          /\ req' = [req EXCEPT ![r] = [kind |-> "fileEvent", pc |-> "done",
                                         type |-> req[r].type,
                                         locked |-> req[r].locked,
                                         called |-> NoCall, ret |-> "false"]]
    /\ UNCHANGED serializedQueue

FileEventLock(r) ==
    /\ req[r].pc = "checking"
    /\ Serialize(r, req[r], fileEventLockKey(req[r]))

DispatchInternalStored(type) ==
    \* a faulty variant: INTERNAL falls through to the store
    CASE type \in {"CREATE", "CHANGED", "INTERNAL"} -> "storeFileToDB"
      [] type = "DELETE" -> "deleteFileFromDB"
      [] OTHER -> "none"

\* The switch on the type, inside the lock.
Dispatch(type) ==
    CASE type \in {"CREATE", "CHANGED"} -> "storeFileToDB"
      [] type = "DELETE" -> "deleteFileFromDB"
      [] OTHER -> "none"

FileEventFinishHoldingOnRaise(r) ==
    \* a faulty variant: an operation that raises leaves its lock taken
    /\ req[r].pc = "critical"
    /\ req[r].kind = "fileEvent"
    /\ \E ret \in Returns :
          /\ Dispatch(req[r].type) = "none" => ret = "false"
          /\ req' = [req EXCEPT ![r] = [kind |-> "fileEvent", pc |-> "done",
                                         type |-> req[r].type,
                                         locked |-> req[r].locked,
                                         called |-> CallOf(Dispatch(req[r].type)),
                                         ret |-> ret]]
          /\ serializedQueue' = IF ret = "raised" THEN serializedQueue
                                ELSE Without(serializedQueue, r)

\* The dispatched operation returns or raises, and the lock is released.
FileEventFinish(r) ==
    /\ req[r].pc = "critical"
    /\ req[r].kind = "fileEvent"
    /\ \E ret \in Returns :
          /\ Dispatch(req[r].type) = "none" => ret = "false"
          /\ req' = [req EXCEPT ![r] = [kind |-> "fileEvent", pc |-> "done",
                                         type |-> req[r].type,
                                         locked |-> req[r].locked,
                                         called |-> CallOf(Dispatch(req[r].type)),
                                         ret |-> ret]]
    /\ serializedQueue' = Without(serializedQueue, r)

\* $anyProcessReplicatedDoc is called: serialized() is its first statement.
ReplicatedDocCall(r) ==
    /\ req[r].pc = "idle"
    /\ \E path \in LockPaths :
          LET entry == [kind |-> "replicatedDoc", path |-> path, pc |-> "idle",
                        locked |-> FALSE]
          IN  Serialize(r, entry, replicatedDocLockKey(entry))

\* The checks and dbToStorage return or raise, and the lock is released.
ReplicatedDocFinish(r) ==
    /\ req[r].pc = "critical"
    /\ req[r].kind = "replicatedDoc"
    /\ \E ret \in Returns :
          req' = [req EXCEPT ![r] = [kind |-> "replicatedDoc", pc |-> "done",
                                     ret |-> ret]]
    /\ serializedQueue' = Without(serializedQueue, r)

\* A per-file task of createAllChunks has its slot and calls
\* storeFileToDB(file, false, true): serialized() is not called.
ChunkStoreCall(r) ==
    /\ req[r].pc = "idle"
    /\ \E path \in LockPaths :
          req' = [req EXCEPT ![r] = [kind |-> "chunkStore", path |-> path,
                                     pc |-> "storing"]]
    /\ UNCHANGED serializedQueue

\* storeFileToDB returns, or raises and the catch logs it.
ChunkStoreFinish(r) ==
    /\ req[r].pc = "storing"
    /\ \E ret \in Returns :
          req' = [req EXCEPT ![r] = [kind |-> "chunkStore", pc |-> "done",
                                     ret |-> ret]]
    /\ UNCHANGED serializedQueue

InitLock ==
    /\ req = [r \in ReqIds |-> IdleReq]
    /\ serializedQueue = <<>>

(***************************************************************************)
(* createAllChunks.  The files are told apart only by how far their task   *)
(* has got, so the tasks are counted per position.  Semaphore(10) of       *)
(* octagonal-wheels hands out at most 10 slots at a time.                  *)
(***************************************************************************)
MaxFiles == 12                      \* the storage holds 0..MaxFiles files
SemaphoreLimit == 10
ProgressEvery == 25

CanAcquireUngated(held) == TRUE     \* a faulty variant: acquire() is not awaited

\* await semaphore.acquire() returns once a slot is free.
CanAcquire(held) == held < SemaphoreLimit

InitChunks ==
    /\ sweep = "idle"
    /\ total = 0 /\ processed = 0 /\ progressLogs = 0 /\ slotsHeld = 0
    /\ cPending = 0 /\ cWaiting = 0 /\ cRunning = 0
    /\ cFulfilled = 0 /\ cRejected = 0
    /\ nTargets = 0 /\ nAttempted = 0 /\ storeFailed = FALSE

IncProcessedLoggingAll ==
    \* a faulty variant: the progress line is logged for every file
    /\ processed' = processed + 1
    /\ progressLogs' = progressLogs + 1

\* processed++ and the progress line on every 25th file
IncProcessed ==
    /\ processed' = processed + 1
    /\ progressLogs' = IF (processed + 1) % ProgressEvery = 0
                        THEN progressLogs + 1 ELSE progressLogs

\* createAllChunks is called: map() starts every per-file task, each runs up
\* to its await of $$isTargetFile, and createAllChunks awaits Promise.all.
CreateAllChunksCall ==
    /\ sweep = "idle"
    /\ \E n \in 0..MaxFiles : total' = n /\ cPending' = n
    /\ sweep' = "running"
    /\ UNCHANGED <<processed, progressLogs, slotsHeld, cWaiting, cRunning,
                   cFulfilled, cRejected, nTargets, nAttempted, storeFailed>>

\* createAllChunks is called on a storage that holds more files than one
\* progress line covers.
ManyFiles == 26

CreateAllChunksCallMany ==
    /\ sweep = "idle"
    /\ total' = ManyFiles /\ cPending' = ManyFiles
    /\ sweep' = "running"
    /\ UNCHANGED <<processed, progressLogs, slotsHeld, cWaiting, cRunning,
                   cFulfilled, cRejected, nTargets, nAttempted, storeFailed>>

\* $$isTargetFile says no, or shouldBeIgnored says yes: counted, and the task
\* returns true.
FileSkipped ==
    /\ cPending > 0
    /\ cPending' = cPending - 1
    /\ IncProcessed
    /\ cFulfilled' = cFulfilled + 1
    /\ UNCHANGED <<sweep, total, slotsHeld, cWaiting, cRunning, cRejected,
                   nTargets, nAttempted, storeFailed>>

\* $$isTargetFile raises: nothing catches it in the task, which raises.
TargetCheckRaised ==
    /\ cPending > 0
    /\ cPending' = cPending - 1
    /\ cRejected' = cRejected + 1
    /\ UNCHANGED <<sweep, total, processed, progressLogs, slotsHeld, cWaiting,
                   cRunning, cFulfilled, nTargets, nAttempted, storeFailed>>

\* The file is a target and not ignored: the task asks for a slot.
FileAccepted ==
    /\ cPending > 0
    /\ cPending' = cPending - 1
    /\ cWaiting' = cWaiting + 1
    /\ nTargets' = nTargets + 1
    /\ UNCHANGED <<sweep, total, processed, progressLogs, slotsHeld, cRunning,
                   cFulfilled, cRejected, nAttempted, storeFailed>>

\* The slot is granted: counted, and storeFileToDB(file, false, true) starts.
SlotAcquired ==
    /\ cWaiting > 0
    /\ CanAcquire(slotsHeld)
    /\ cWaiting' = cWaiting - 1
    /\ slotsHeld' = slotsHeld + 1
    /\ IncProcessed
    /\ cRunning' = cRunning + 1
    /\ nAttempted' = nAttempted + 1
    /\ UNCHANGED <<sweep, total, cPending, cFulfilled, cRejected, nTargets,
                   storeFailed>>

StoreSettledKeepingSlot ==
    \* a faulty variant: a store that raises does not release its slot
    /\ cRunning > 0
    /\ \E raised \in BOOLEAN :
          /\ storeFailed' = (storeFailed \/ raised)
          /\ slotsHeld' = IF raised THEN slotsHeld ELSE slotsHeld - 1
    /\ cRunning' = cRunning - 1
    /\ cFulfilled' = cFulfilled + 1
    /\ UNCHANGED <<sweep, total, processed, progressLogs, cPending, cWaiting,
                   cRejected, nTargets, nAttempted>>

\* storeFileToDB returns, or raises and the catch logs it; finally release().
StoreSettled ==
    /\ cRunning > 0
    /\ \E raised \in BOOLEAN : storeFailed' = (storeFailed \/ raised)
    /\ cRunning' = cRunning - 1
    /\ slotsHeld' = slotsHeld - 1
    /\ cFulfilled' = cFulfilled + 1
    /\ UNCHANGED <<sweep, total, processed, progressLogs, cPending, cWaiting,
                   cRejected, nTargets, nAttempted>>

\* Promise.all: every task has returned; the completion line is logged.
SweepCompleted ==
    /\ sweep = "running"
    /\ cFulfilled = total
    /\ sweep' = "done"
    /\ UNCHANGED <<total, processed, progressLogs, slotsHeld, cPending, cWaiting,
                   cRunning, cFulfilled, cRejected, nTargets, nAttempted,
                   storeFailed>>

\* Promise.all: a task has raised, and so does createAllChunks, while the
\* other tasks go on.
SweepRaised ==
    /\ sweep = "running"
    /\ cRejected > 0
    /\ sweep' = "raised"
    /\ UNCHANGED <<total, processed, progressLogs, slotsHeld, cPending, cWaiting,
                   cRunning, cFulfilled, cRejected, nTargets, nAttempted,
                   storeFailed>>

(***************************************************************************)
(* The specifications.                                                     *)
(***************************************************************************)
MTimeIdle == baseMTime = FromInt(0) /\ targetMTime = FromInt(0) /\ mtResult = "idle"

InitSpecMTime == InitMTime /\ InitRegistry /\ InitLock /\ InitChunks /\ EngineIdle

NextMTime == CallCompareMTime /\ UNCHANGED <<regVars, lockVars, chunkVars, engVars>>

SpecMTime == InitSpecMTime /\ [][NextMTime]_vars

NextRegistry ==
    \/ CallMarkChangesAreSame /\ UNCHANGED <<mtVars, lockVars, chunkVars, engVars>>
    \/ CallUnmarkChanges /\ UNCHANGED <<mtVars, lockVars, chunkVars, engVars>>

InitSpecRegistry == MTimeIdle /\ InitRegistry /\ InitLock /\ InitChunks /\ EngineIdle

SpecRegistry == InitSpecRegistry /\ [][NextRegistry]_vars

NextPartition ==
    \/ PartitionMark /\ UNCHANGED <<mtVars, lockVars, chunkVars, engVars>>
    \/ PartitionUnmark /\ UNCHANGED <<mtVars, lockVars, chunkVars, engVars>>

InitSpecPartition == MTimeIdle /\ InitPartition /\ InitLock /\ InitChunks /\ EngineIdle

SpecPartition == InitSpecPartition /\ [][NextPartition]_vars

NextWatch ==
    \/ WatchMarkChangesAreSame /\ UNCHANGED <<mtVars, lockVars, chunkVars, engVars>>
    \/ WatchUnmarkChanges /\ UNCHANGED <<mtVars, lockVars, chunkVars, engVars>>

InitSpecRegistryWatch == MTimeIdle /\ InitWatch /\ InitLock /\ InitChunks /\ EngineIdle

NextLock ==
    \/ \E r \in ReqIds : FileEventCall(r) /\ UNCHANGED <<mtVars, regVars, chunkVars, engVars>>
    \/ \E r \in ReqIds : FileEventRejected(r) /\ UNCHANGED <<mtVars, regVars, chunkVars, engVars>>
    \/ \E r \in ReqIds : FileEventLock(r) /\ UNCHANGED <<mtVars, regVars, chunkVars, engVars>>
    \/ \E r \in ReqIds : FileEventFinish(r) /\ UNCHANGED <<mtVars, regVars, chunkVars, engVars>>
    \/ \E r \in ReqIds : ReplicatedDocCall(r) /\ UNCHANGED <<mtVars, regVars, chunkVars, engVars>>
    \/ \E r \in ReqIds : ReplicatedDocFinish(r) /\ UNCHANGED <<mtVars, regVars, chunkVars, engVars>>
    \/ \E r \in ReqIds : SerializedStart(r) /\ UNCHANGED <<mtVars, regVars, chunkVars, engVars>>
    \/ \E r \in ReqIds : ChunkStoreCall(r) /\ UNCHANGED <<mtVars, regVars, chunkVars, engVars>>
    \/ \E r \in ReqIds : ChunkStoreFinish(r) /\ UNCHANGED <<mtVars, regVars, chunkVars, engVars>>

\* The event loop runs a queued call once the call before it has finished;
\* a guarded operation that has started returns or raises.
LockFairness ==
    \A r \in ReqIds :
        /\ WF_vars(SerializedStart(r)
                     /\ UNCHANGED <<mtVars, regVars, chunkVars, engVars>>)
        /\ WF_vars(/\ FileEventFinish(r) \/ ReplicatedDocFinish(r)
                   /\ UNCHANGED <<mtVars, regVars, chunkVars, engVars>>)

InitSpecLockFair == MTimeIdle /\ InitRegistry /\ InitLock /\ InitChunks /\ EngineIdle

SpecLockFair == InitSpecLockFair /\ [][NextLock]_vars /\ LockFairness

InitSpecLock == MTimeIdle /\ InitRegistry /\ InitLock /\ InitChunks /\ EngineIdle

SpecLock == InitSpecLock /\ [][NextLock]_vars

NextChunks ==
    \/ CreateAllChunksCall /\ UNCHANGED <<mtVars, regVars, lockVars, engVars>>
    \/ FileSkipped /\ UNCHANGED <<mtVars, regVars, lockVars, engVars>>
    \/ TargetCheckRaised /\ UNCHANGED <<mtVars, regVars, lockVars, engVars>>
    \/ FileAccepted /\ UNCHANGED <<mtVars, regVars, lockVars, engVars>>
    \/ SlotAcquired /\ UNCHANGED <<mtVars, regVars, lockVars, engVars>>
    \/ StoreSettled /\ UNCHANGED <<mtVars, regVars, lockVars, engVars>>
    \/ SweepCompleted /\ UNCHANGED <<mtVars, regVars, lockVars, engVars>>
    \/ SweepRaised /\ UNCHANGED <<mtVars, regVars, lockVars, engVars>>

\* The event loop runs every task that can go on: a target check answers,
\* a free slot is handed to a waiting task, a store returns or raises, and
\* Promise.all settles once its tasks have.
ChunksFairness ==
    /\ WF_vars(/\ FileSkipped \/ TargetCheckRaised \/ FileAccepted
               /\ UNCHANGED <<mtVars, regVars, lockVars, engVars>>)
    /\ WF_vars(SlotAcquired /\ UNCHANGED <<mtVars, regVars, lockVars, engVars>>)
    /\ WF_vars(StoreSettled /\ UNCHANGED <<mtVars, regVars, lockVars, engVars>>)
    /\ WF_vars(/\ SweepCompleted \/ SweepRaised
               /\ UNCHANGED <<mtVars, regVars, lockVars, engVars>>)

InitSpecChunksFair == MTimeIdle /\ InitRegistry /\ InitLock /\ InitChunks /\ EngineIdle

SpecChunksFair == InitSpecChunksFair /\ [][NextChunks]_vars /\ ChunksFairness

NextProgress ==
    \/ CreateAllChunksCallMany /\ UNCHANGED <<mtVars, regVars, lockVars, engVars>>
    \/ FileSkipped /\ UNCHANGED <<mtVars, regVars, lockVars, engVars>>
    \/ TargetCheckRaised /\ UNCHANGED <<mtVars, regVars, lockVars, engVars>>
    \/ FileAccepted /\ UNCHANGED <<mtVars, regVars, lockVars, engVars>>
    \/ SlotAcquired /\ UNCHANGED <<mtVars, regVars, lockVars, engVars>>
    \/ StoreSettled /\ UNCHANGED <<mtVars, regVars, lockVars, engVars>>
    \/ SweepCompleted /\ UNCHANGED <<mtVars, regVars, lockVars, engVars>>
    \/ SweepRaised /\ UNCHANGED <<mtVars, regVars, lockVars, engVars>>

InitSpecProgress == MTimeIdle /\ InitRegistry /\ InitLock /\ InitChunks /\ EngineIdle

SpecProgress == InitSpecProgress /\ [][NextProgress]_vars

InitSpecChunks == MTimeIdle /\ InitRegistry /\ InitLock /\ InitChunks /\ EngineIdle

SpecChunks == InitSpecChunks /\ [][NextChunks]_vars

NextEngine ==
    \/ CallDbToStorage /\ UNCHANGED <<mtVars, lockVars, chunkVars>>
    \/ CallAnyProcessReplicatedDoc /\ UNCHANGED <<mtVars, lockVars, chunkVars>>

InitSpecEngine == MTimeIdle /\ InitRegistry /\ InitLock /\ InitChunks /\ InitEngine

SpecEngine == InitSpecEngine /\ [][NextEngine]_vars

NextStore ==
    \/ CallStoreFileToDB /\ UNCHANGED <<mtVars, lockVars, chunkVars>>
    \/ CallDbToStorage /\ UNCHANGED <<mtVars, lockVars, chunkVars>>
    \/ CallDeleteFileFromDBOfDocument /\ UNCHANGED <<mtVars, lockVars, chunkVars>>

InitSpecStore == MTimeIdle /\ InitRegistry /\ InitLock /\ InitChunks /\ InitStore

SpecStore == InitSpecStore /\ [][NextStore]_vars

NextRevisions ==
    \/ CallDeleteFileFromDB /\ UNCHANGED <<mtVars, lockVars, chunkVars>>
    \/ CallDbToStorageWithSpecificRev /\ UNCHANGED <<mtVars, lockVars, chunkVars>>
    \/ CallResolveConflictedByDeletingRevision
           /\ UNCHANGED <<mtVars, lockVars, chunkVars>>

InitSpecRevisions ==
    MTimeIdle /\ InitRegistry /\ InitLock /\ InitChunks /\ InitRevisions

SpecRevisions == InitSpecRevisions /\ [][NextRevisions]_vars

SpecRegistryWatch == InitSpecRegistryWatch /\ [][NextWatch]_vars

NextFreshness ==
    \/ FreshnessMark /\ UNCHANGED <<mtVars, lockVars, chunkVars>>
    \/ CallCompareFileFreshness /\ UNCHANGED <<mtVars, lockVars, chunkVars>>

InitSpecFreshness == MTimeIdle /\ InitRegistry /\ InitLock /\ InitChunks /\ EngineIdle

SpecFreshness == InitSpecFreshness /\ [][NextFreshness]_vars

(***************************************************************************)
(* Claims about compareMTime (SpecMTime).  The true order of two           *)
(* timestamps and their floor(t / resolution) buckets, on the limbs.       *)
(***************************************************************************)
Verdicts == {"BASE_IS_NEW", "TARGET_IS_NEW", "EVEN"}

MagLess(a, b) ==
    \/ a.k < b.k
    \/ a.k = b.k /\ a.m < b.m
    \/ a.k = b.k /\ a.m = b.m /\ a.r < b.r

Less(a, b) ==
    IF a.neg = b.neg THEN (IF a.neg THEN MagLess(b, a) ELSE MagLess(a, b))
    ELSE a.neg

\* floor(t / resolution), as a sign and a magnitude in two limbs: a negative
\* t that is no multiple of resolution lies one bucket below -(|t| div resolution).
FloorBucket(t) ==
    [neg |-> t.neg,
     mag |-> IF t.neg /\ t.r > 0
             THEN (IF t.m = Int32Max THEN <<t.k + 1, 0>> ELSE <<t.k, t.m + 1>>)
             ELSE <<t.k, t.m>>]

\* C9: compareMTime(a, b) is EVEN whenever floor(a/2000) = floor(b/2000), for
\* negative timestamps and buckets beyond 32 bits too.
C9_SameBucketIsEven ==
    (mtResult \in Verdicts /\ FloorBucket(baseMTime) = FloorBucket(targetMTime))
        => mtResult = "EVEN"

\* C10: in different buckets the larger timestamp is the newer side:
\* compareMTime(a, b) is BASE_IS_NEW and compareMTime(b, a) is TARGET_IS_NEW
\* for a > b, also when a/2000 leaves the signed 32-bit range.
C10_LargerBucketIsNewer ==
    (mtResult \in Verdicts /\ FloorBucket(baseMTime) # FloorBucket(targetMTime))
        => /\ Less(targetMTime, baseMTime) => mtResult = "BASE_IS_NEW"
           /\ Less(baseMTime, targetMTime) => mtResult = "TARGET_IS_NEW"

(***************************************************************************)
(* Claims about compareFileFreshness (SpecFreshness).                      *)
(***************************************************************************)
FreshnessCalled == lastCall.op = "compareFileFreshness"

IsAbsent(arg) == arg.is \in {"undefined", "null"}

\* C11: compareFileFreshness is EVEN when both sides are absent, TARGET_IS_NEW
\* when only the base is absent and BASE_IS_NEW when only the target is
\* absent, whether an absent side is undefined or null.
C11_AbsenceDecides ==
    FreshnessCalled =>
        /\ (IsAbsent(lastCall.baseFile) /\ IsAbsent(lastCall.checkTarget))
               => lastCall.ret = "EVEN"
        /\ (IsAbsent(lastCall.baseFile) /\ ~IsAbsent(lastCall.checkTarget))
               => lastCall.ret = "TARGET_IS_NEW"
        /\ (~IsAbsent(lastCall.baseFile) /\ IsAbsent(lastCall.checkTarget))
               => lastCall.ret = "BASE_IS_NEW"

\* C12: with both sides present and modification times m1 and m2, the result
\* is EVEN when both values are stored as equivalent for the base file's
\* path, and compareMTime(m1, m2) otherwise; 0 is a value like any other.
C12_RegistryThenCompareMTime ==
    (FreshnessCalled /\ ~IsAbsent(lastCall.baseFile) /\ ~IsAbsent(lastCall.checkTarget))
        => LET m1 == lastCall.baseFile.mtime
               m2 == lastCall.checkTarget.mtime
               stored == PairsOf(lastCall.reg, getKey(lastCall.baseFile.file))
           IN  lastCall.ret = IF {m1, m2} \subseteq stored THEN "EVEN"
                              ELSE compareMTime(FromInt(m1), FromInt(m2))

(***************************************************************************)
(* Claims about the per-path serialization (SpecLock).                     *)
(***************************************************************************)
InCritical(kind, path) ==
    {r \in ReqIds : /\ req[r].pc = "critical"
                    /\ req[r].kind = kind
                    /\ req[r].path = path}

\* C1: a file-event operation and a replicated-document intake for the same
\* path are never both between lock acquisition and lock release.
C1_EntryPointsExcludeEachOther ==
    \A path \in LockPaths :
        InCritical("fileEvent", path) = {} \/ InCritical("replicatedDoc", path) = {}

\* C2: within one entry point, at most one operation is inside the critical
\* section for a path, however many requests for the path are in flight.
C2_OnePerPathWithinEntryPoint ==
    \A path \in LockPaths, kind \in {"fileEvent", "replicatedDoc"} :
        Cardinality(InCritical(kind, path)) <= 1

C2_Witness ==
    \E r1, r2 \in ReqIds :
        /\ req[r1].pc = "critical" /\ req[r2].pc = "queued"
        /\ req[r1].kind = req[r2].kind /\ req[r1].path = req[r2].path

\* C21: a finished file event has called storeFileToDB with force and
\* onlyChunks false when its type is CREATE or CHANGED, deleteFileFromDB when
\* it is DELETE, and nothing, returning false, for INTERNAL and any other
\* type; rejected as no target or as ignored it has returned false without
\* calling serialized() and without calling anything.
C21_DispatchByType ==
    \A r \in ReqIds :
        (req[r].pc = "done" /\ req[r].kind = "fileEvent")
            => IF ~req[r].locked
               THEN req[r].called.fn = "none" /\ req[r].ret = "false"
               ELSE CASE req[r].type \in {"CREATE", "CHANGED"} ->
                           req[r].called = [fn |-> "storeFileToDB", force |-> FALSE,
                                            onlyChunks |-> FALSE]
                      [] req[r].type = "DELETE" ->
                           req[r].called.fn = "deleteFileFromDB"
                      [] OTHER ->
                           req[r].called.fn = "none" /\ req[r].ret = "false"

C21_Witness ==
    \E r1, r2 \in ReqIds :
        /\ req[r1].pc = "done" /\ req[r1].kind = "fileEvent"
        /\ req[r1].type = "INTERNAL" /\ req[r1].locked
        /\ req[r2].pc = "done" /\ req[r2].kind = "fileEvent"
        /\ req[r2].type = "DELETE" /\ ~req[r2].locked

\* The request holds or awaits a lock.
InQueue(r) == \E i \in 1..Len(serializedQueue) : serializedQueue[i].req = r

\* C35: a lock taken by $anyHandlerProcessesFileEvent or by
\* $anyProcessReplicatedDoc is held only while its call is queued or its
\* operation is in progress, so none stays taken after the operation has
\* returned or raised; a call queued behind an operation on the same key
\* eventually runs, and a lock taken is eventually released.
C35_LocksAreReleased ==
    /\ [](\A r \in ReqIds : InQueue(r) <=> req[r].pc \in {"queued", "critical"})
    /\ \A r \in ReqIds : (req[r].pc = "queued") ~> (req[r].pc = "critical")
    /\ \A r \in ReqIds : InQueue(r) ~> ~InQueue(r)

\* An operation has raised and the call that shares its key is running.
C35_Witness ==
    \E r, q \in ReqIds :
        /\ req[r].pc = "done" /\ req[r].kind = "fileEvent"
        /\ req[r].locked /\ req[r].ret = "raised"
        /\ req[q].pc = "critical" /\ req[q].kind = "fileEvent"
        /\ serializedQueue = <<[key |-> KeyOf(q), req |-> q]>>

\* C20: while a chunks-only store of createAllChunks runs for a path, no
\* replicated-document intake and no file-event operation is inside its
\* critical section for the same path.
C20_ChunkStoreIsSerialized ==
    \A path \in LockPaths :
        (\E r \in ReqIds : /\ req[r].pc = "storing" /\ req[r].path = path)
            => /\ InCritical("replicatedDoc", path) = {}
               /\ InCritical("fileEvent", path) = {}

(***************************************************************************)
(* Claims about the engine's operations (SpecEngine).                      *)
(***************************************************************************)
\* C3: when dbToStorage resolves the document and the path has a conflicting
\* revision while writeDocumentsIfConflicted is off, it mutates nothing on
\* the storage (no delete, no directory, no write, no notification), queues
\* a conflict check and returns true, for every force and every storage state.
C3_ConflictDefersWrite ==
    ( /\ lastCall.op = "dbToStorage"
      /\ dbDoc.exists
      /\ conflictedRevs # {}
      /\ ~writeDocumentsIfConflicted )
    => /\ lastCall.effects = <<"queueConflictCheckIfOpen">>
       /\ lastCall.ret = "true"
       /\ storage = lastCall.storageBefore

C3_Witness ==
    /\ lastCall.op = "dbToStorage"
    /\ dbDoc.exists /\ ~dbDoc.deleted /\ dbDoc.loadable
    /\ conflictedRevs # {} /\ ~writeDocumentsIfConflicted
    /\ lastCall.force
    /\ storage.kind = "file" /\ storage.body # dbDoc.data

\* dbToStorage has been called with force = false on a live document without
\* conflicting revisions whose body loads, and the storage held a file.
RestoreCompared ==
    /\ lastCall.op = "dbToStorage" /\ ~lastCall.force
    /\ LiveEntry(dbDoc) /\ conflictedRevs = {}
    /\ lastCall.storageBefore.kind = "file"

RestoreWrote ==
    \E i \in 1..Len(lastCall.effects) : lastCall.effects[i] = "writeFileAuto"

\* C15: in that setting, when the verdict is EVEN the contents are compared:
\* equal contents give true with nothing written, differing contents have the
\* document written to storage.
C15_EvenComparesContent ==
    (RestoreCompared /\ lastCall.verdict = "EVEN")
        => IF lastCall.storageBefore.body = dbDoc.data
           THEN lastCall.ret = "true" /\ lastCall.effects = <<>>
           ELSE RestoreWrote

\* C16: in that setting, when the verdict is that one side is newer, the
\* document is written to storage whatever the contents are.
C16_NewerAlwaysWrites ==
    (RestoreCompared /\ lastCall.verdict # "EVEN") => RestoreWrote

\* The position of a call in the list of calls made, 0 when it was not made,
\* and the number of times it was made.
PositionOf(effects, call) ==
    IF \E i \in 1..Len(effects) : effects[i] = call
    THEN CHOOSE i \in 1..Len(effects) :
             effects[i] = call /\ \A j \in 1..(i - 1) : effects[j] # call
    ELSE 0

TimesMade(effects, call) ==
    Cardinality({i \in 1..Len(effects) : effects[i] = call})

\* dbToStorage has been called on a path without conflicting revisions that
\* is not a folder on storage, and the document is flagged as deleted by
\* either marker.
RestoreOfDeleted ==
    /\ lastCall.op = "dbToStorage"
    /\ dbDoc.exists /\ (dbDoc.deleted \/ dbDoc.underscoreDeleted)
    /\ conflictedRevs = {}
    /\ lastCall.storageBefore.kind # "folder"

\* C24: in that setting, when nothing exists on storage nothing is mutated
\* and the result is true; when a file exists on storage it is deleted,
\* nothing is written, no notification is emitted and the result is true,
\* whatever the modification times and force are.
C24_DeletedDocRemovesStorage ==
    RestoreOfDeleted
        => /\ lastCall.ret = "true"
           /\ IF lastCall.storageBefore.kind = "none"
              THEN lastCall.effects = <<>> /\ storage = lastCall.storageBefore
              ELSE lastCall.effects = <<"deleteVaultItem">> /\ storage = NoItem

C24_Witness ==
    /\ RestoreOfDeleted
    /\ dbDoc.deleted /\ ~dbDoc.underscoreDeleted
    /\ lastCall.force
    /\ lastCall.storageBefore.kind = "file"
    /\ lastCall.storageBefore.mtime > dbDoc.mtime
    /\ storage = NoItem

\* dbToStorage has been called on a path without deferral that is not a
\* folder on storage, the document is live and its body cannot be fetched.
RestoreWithoutBody ==
    /\ lastCall.op = "dbToStorage"
    /\ dbDoc.exists /\ ~dbDoc.deleted /\ ~dbDoc.underscoreDeleted
    /\ ~dbDoc.loadable
    /\ ~(conflictedRevs # {} /\ ~writeDocumentsIfConflicted)
    /\ lastCall.storageBefore.kind # "folder"

\* C25: dbToStorage returns false and leaves the storage unchanged when the
\* document metadata cannot be resolved for the path, and when the metadata
\* of a live document is resolved but its body cannot be fetched.
C25_UnresolvedReturnsFalse ==
    ((lastCall.op = "dbToStorage" /\ ~dbDoc.exists) \/ RestoreWithoutBody)
        => /\ lastCall.ret = "false"
           /\ lastCall.effects = <<>>
           /\ storage = lastCall.storageBefore

C25_Witness ==
    /\ RestoreWithoutBody
    /\ lastCall.force
    /\ lastCall.storageBefore.kind = "file"
    /\ lastCall.storageBefore.body # dbDoc.data

\* C26: when dbToStorage writes, it ensures the directory, then writes, then
\* emits the notification; each write has exactly one notification, whose
\* mode is 'create' when no storage file reference was resolved at the start
\* of the operation and 'modify' otherwise; an operation that does not write
\* emits no notification.
C26_WriteThenNotifyOnce ==
    lastCall.op = "dbToStorage"
        => LET e == lastCall.effects
               resolved == \/ lastCall.info = "stub"
                           \/ /\ lastCall.info = "path"
                              /\ lastCall.storageBefore.kind = "file"
           IN  IF TimesMade(e, "writeFileAuto") > 0
               THEN /\ TimesMade(e, "writeFileAuto") = 1
                    /\ TimesMade(e, "triggerFileEvent") = 1
                    /\ TimesMade(e, "ensureDir") = 1
                    /\ PositionOf(e, "ensureDir") < PositionOf(e, "writeFileAuto")
                    /\ PositionOf(e, "writeFileAuto") < PositionOf(e, "triggerFileEvent")
                    /\ e[PositionOf(e, "triggerFileEvent") + 1]
                           = (IF resolved THEN "modify" ELSE "create")
               ELSE TimesMade(e, "triggerFileEvent") = 0

C26_Witness ==
    /\ lastCall.op = "dbToStorage"
    /\ lastCall.info = "path"
    /\ lastCall.storageBefore.kind = "none"
    /\ TimesMade(lastCall.effects, "writeFileAuto") = 1
    /\ lastCall.effects[Len(lastCall.effects)] = "create"
    /\ storage.kind = "file"

\* A call of dbToStorage or of $anyProcessReplicatedDoc has deleted, written
\* or notified.
TouchedStorage ==
    \/ storage # lastCall.storageBefore
    \/ \E call \in {"deleteVaultItem", "ensureDir", "writeFileAuto",
                     "triggerFileEvent", "conflict-cancelled"} :
           TimesMade(lastCall.effects, call) > 0

\* dbToStorage has been called with a resolvable document, or
\* $anyProcessReplicatedDoc has been called, on a path that is a folder on
\* storage.
FolderCall ==
    /\ \/ lastCall.op = "dbToStorage" /\ dbDoc.exists
       \/ lastCall.op = "anyProcessReplicatedDoc"
    /\ lastCall.storageBefore.kind = "folder"

\* C27 as stated: for a path that is a folder on storage both operations
\* return true without deleting, writing or notifying, for every document
\* state and every force.
C27_FolderAlwaysTrue ==
    (lastCall.op \in {"dbToStorage", "anyProcessReplicatedDoc"} /\ FolderCall)
        => lastCall.ret = "true" /\ ~TouchedStorage

\* C27: for a path that is a folder on storage neither operation deletes,
\* writes or notifies, for every document state and every force; dbToStorage
\* returns true, and $anyProcessReplicatedDoc returns true when the path is
\* a target and is not ignored, false otherwise.
C27_FolderNeverModified ==
    (lastCall.op \in {"dbToStorage", "anyProcessReplicatedDoc"} /\ FolderCall)
        => /\ ~TouchedStorage
           /\ IF lastCall.op = "dbToStorage"
              THEN lastCall.ret = "true"
              ELSE lastCall.ret = (IF lastCall.isTargetFile /\ ~lastCall.ignored
                                   THEN "true" ELSE "false")

C27_Witness ==
    /\ FolderCall
    /\ lastCall.op = "dbToStorage"
    /\ lastCall.force
    /\ dbDoc.deleted
    /\ conflictedRevs = {}
    /\ lastCall.ret = "true"

C27_WitnessIntake ==
    /\ FolderCall
    /\ lastCall.op = "anyProcessReplicatedDoc"
    /\ lastCall.isTargetFile /\ ~lastCall.ignored
    /\ lastCall.ret = "true"

\* $anyProcessReplicatedDoc has been called and went on to dbToStorage: the
\* path is a target, is not ignored and is not a folder on storage.
IntakeProceeds ==
    /\ lastCall.op = "anyProcessReplicatedDoc"
    /\ lastCall.isTargetFile /\ ~lastCall.ignored
    /\ lastCall.storageBefore.kind # "folder"

\* C28: for a target, non-ignored, non-folder path $anyProcessReplicatedDoc
\* emits conflict-cancelled exactly once and before dbToStorage starts, also
\* when dbToStorage defers; for any other path it emits none and does not
\* call dbToStorage.
C28_ConflictCancelledBeforeRestore ==
    lastCall.op = "anyProcessReplicatedDoc"
        => LET e == lastCall.effects
           IN  IF IntakeProceeds
               THEN /\ TimesMade(e, "conflict-cancelled") = 1
                    /\ TimesMade(e, "dbToStorage") = 1
                    /\ PositionOf(e, "conflict-cancelled")
                           < PositionOf(e, "dbToStorage")
                    /\ PositionOf(e, "dbToStorage") = 2
               ELSE /\ TimesMade(e, "conflict-cancelled") = 0
                    /\ TimesMade(e, "dbToStorage") = 0

C28_Witness ==
    /\ IntakeProceeds
    /\ dbDoc.exists /\ conflictedRevs # {} /\ ~writeDocumentsIfConflicted
    /\ lastCall.effects
          = <<"conflict-cancelled", "dbToStorage", "queueConflictCheckIfOpen">>
    /\ lastCall.ret = "true"

(***************************************************************************)
(* Claims about storeFileToDB (SpecStore).                                 *)
(***************************************************************************)
\* C13: after storeFileToDB of a storage file with content C on a path
\* without a document, dbToStorage leaves the storage content C, and a second
\* dbToStorage writes nothing and returns true.
C13_StoreRoundTrip ==
    /\ roundTrip.phase \in {"once", "twice"}
           => storage.kind = "file" /\ storage.body = roundTrip.content
    /\ roundTrip.phase = "twice"
           => /\ lastCall.effects = <<>> /\ lastCall.ret = "true"
              /\ storage = lastCall.storageBefore

C13_Witness ==
    /\ roundTrip.phase = "twice" /\ lastCall.op = "dbToStorage"
    /\ dbDoc = StoredDoc(storage)

\* C23: from a storage file and a live unconflicted document with the same
\* content, calls of dbToStorage and storeFileToDB with force = false write at
\* most once in total, to the database or to the storage, and every call
\* after that write changes nothing and returns true.
C23_AtMostOneWrite ==
    [][ (syncWrites >= 0 /\ syncWrites' >= 0)
            => /\ syncWrites' <= 1
               /\ (syncWrites = 1 /\ lastCall'.ret # "raised")
                      => /\ dbDoc' = dbDoc /\ storage' = storage
                         /\ lastCall'.ret = "true"
                         /\ lastCall'.op = "dbToStorage"
                                => lastCall'.effects = <<>>
                         /\ lastCall'.op = "storeFileToDB"
                                => lastCall'.dbCall = NoDbCall ]_vars

C23_Witness ==
    /\ syncWrites = 1
    /\ lastCall.op = "storeFileToDB" /\ lastCall.dbCall = NoDbCall
    /\ lastCall.ret = "true"
    /\ sameChangePairs[getKey(PathObject)] # {}

\* storeFileToDB has been called with force = false and onlyChunks = false
\* on a file that resolves and can be read, and the entry was live.
StoreCompared ==
    /\ lastCall.op = "storeFileToDB" /\ ~lastCall.force /\ ~lastCall.onlyChunks
    /\ lastCall.info \in {"stub", "full", "path"} /\ storage.kind = "file"
    /\ lastCall.readable
    /\ LiveEntry(lastCall.docBefore)

\* C17: in that setting db.store is called if and only if the verdict is not
\* EVEN or the contents differ; with an EVEN verdict and equal contents the
\* database is left alone, the result is true, and the two modification
\* times, when they are not the same value, are both stored for the path.
C17_StoredIffNewerOrDifferent ==
    StoreCompared =>
        LET same == lastCall.docBefore.data = storage.body
            even == lastCall.verdict = "EVEN"
            m1 == storage.mtime
            m2 == lastCall.docBefore.mtime
        IN  /\ (lastCall.dbCall.fn = "store") <=> (~even \/ ~same)
            /\ (even /\ same)
                   => /\ lastCall.dbCall = NoDbCall
                      /\ dbDoc = lastCall.docBefore
                      /\ lastCall.ret = "true"
                      /\ \/ m1 = m2
                         \/ {m1, m2} \subseteq PairsOf(sameChangePairs,
                                                       getKey(PathObject))

C17_Witness ==
    /\ StoreCompared
    /\ lastCall.verdict = "EVEN" /\ lastCall.docBefore.data = storage.body
    /\ storage.mtime # lastCall.docBefore.mtime
    /\ lastCall.ret = "true"

\* C18: storeFileToDB, and dbToStorage when it reads the storage file, never
\* raise when the content cannot be read: they return.
C18_NeverRaisesForAbsentFile ==
    lastCall.op \in {"storeFileToDB", "dbToStorage"} => lastCall.ret # "raised"

\* storeFileToDB or deleteFileFromDB has been called and the file cannot be
\* resolved (nothing was given, or a path that is not a file on storage) or
\* is an internal one.
FileRejected ==
    /\ lastCall.op \in {"storeFileToDB", "deleteFileFromDB"}
    /\ \/ lastCall.info \in {"null", "internal"}
       \/ lastCall.info = "path" /\ storage.kind # "file"

\* deleteFileFromDB has been called for a file that is resolved and not
\* internal, and the document is missing or flagged deleted by either marker.
NothingToDelete ==
    /\ lastCall.op = "deleteFileFromDB"
    /\ ~FileRejected
    /\ \/ ~lastCall.docBefore.exists
       \/ lastCall.docBefore.deleted
       \/ lastCall.docBefore.underscoreDeleted

\* C29: storeFileToDB and deleteFileFromDB return false and make no call on
\* the database, neither a read nor a write, when the file cannot be
\* resolved or is internal; deleteFileFromDB also returns false and calls no
\* delete when the document is missing or flagged deleted by either marker.
C29_RejectsWithoutDatabaseCall ==
    /\ FileRejected
         => /\ lastCall.ret = "false"
            /\ lastCall.calls = <<>>
            /\ dbDoc = lastCall.docBefore
            /\ IF lastCall.op = "storeFileToDB"
               THEN lastCall.dbCall.fn = "none"
               ELSE lastCall.deletedRev = "none"
    /\ NothingToDelete
         => /\ lastCall.ret = "false"
            /\ lastCall.deletedRev = "none"
            /\ dbDoc = lastCall.docBefore

C29_Witness ==
    /\ FileRejected
    /\ lastCall.op = "storeFileToDB"
    /\ lastCall.info = "internal"
    /\ lastCall.force
    /\ LiveEntry(lastCall.docBefore)
    /\ storage.kind = "file" /\ storage.body # dbDoc.data

C29_WitnessDelete ==
    /\ NothingToDelete
    /\ lastCall.info = "stub"
    /\ lastCall.docBefore.deleted /\ ~lastCall.docBefore.underscoreDeleted
    /\ lastCall.calls = <<"fetchEntry">>

\* C30: when storeFileToDB finds the document missing or flagged deleted by
\* either marker, and the file can be read, it reads the file content and
\* makes exactly one database call with no freshness or content comparison
\* before it: a full store when onlyChunks is false, a creation of the
\* chunks alone when onlyChunks is true; the registry is left as it was.
C30_FreshCreationStoresOnce ==
    [][ ( /\ lastCall'.op = "storeFileToDB"
          /\ \/ lastCall'.info \in {"stub", "full"}
             \/ lastCall'.info = "path" /\ storage.kind = "file"
          /\ \/ ~dbDoc.exists
             \/ dbDoc.deleted
             \/ dbDoc.underscoreDeleted
          /\ lastCall'.readable )
        => /\ lastCall'.calls = <<"fetchEntry", "readFileFromStub">>
           /\ lastCall'.dbCall
                 = DbCall(IF lastCall'.onlyChunks THEN "createChunks" ELSE "store",
                          FALSE)
           /\ sameChangePairs' = sameChangePairs ]_vars

C30_Witness ==
    /\ lastCall.op = "storeFileToDB"
    /\ lastCall.info = "stub"
    /\ lastCall.docBefore.exists /\ lastCall.docBefore.deleted
    /\ ~lastCall.docBefore.underscoreDeleted
    /\ lastCall.onlyChunks /\ lastCall.force
    /\ lastCall.dbCall = DbCall("createChunks", FALSE)
    /\ lastCall.ret = "true"

\* C31: with force = true, storeFileToDB on a resolved file that is not
\* internal and can be read reads the content and calls db.store, or
\* db.createChunks when onlyChunks is true, with no comparison before it,
\* whatever the verdict, the registry and the contents are; with force =
\* true, dbToStorage on a live document without conflicting revisions on a
\* path that is not a folder writes the storage file and leaves the registry
\* as it was.
C31_ForceBypassesComparison ==
    [][ /\ ( /\ lastCall'.op = "storeFileToDB"
             /\ lastCall'.force
             /\ \/ lastCall'.info \in {"stub", "full"}
                \/ lastCall'.info = "path" /\ storage.kind = "file"
             /\ lastCall'.readable )
           => /\ lastCall'.calls = <<"fetchEntry", "readFileFromStub">>
              /\ lastCall'.dbCall.fn
                    = (IF lastCall'.onlyChunks THEN "createChunks" ELSE "store")
              /\ sameChangePairs' = sameChangePairs
        /\ ( /\ lastCall'.op = "dbToStorage"
             /\ lastCall'.force
             /\ dbDoc.exists /\ dbDoc.loadable
             /\ ~dbDoc.deleted /\ ~dbDoc.underscoreDeleted
             /\ conflictedRevs = {}
             /\ storage.kind # "folder" )
           => /\ TimesMade(lastCall'.effects, "writeFileAuto") = 1
              /\ lastCall'.effects[1] = "ensureDir"
              /\ sameChangePairs' = sameChangePairs ]_vars

\* A forced dbToStorage has written over a file of the same content whose
\* verdict was EVEN.
C31_Witness ==
    /\ lastCall.op = "dbToStorage"
    /\ lastCall.force
    /\ lastCall.verdict = "EVEN"
    /\ lastCall.storageBefore.kind = "file"
    /\ lastCall.storageBefore.body = dbDoc.data
    /\ TimesMade(lastCall.effects, "writeFileAuto") = 1
    /\ lastCall.ret = "true"

C31_WitnessStore ==
    /\ lastCall.op = "storeFileToDB"
    /\ lastCall.force /\ ~lastCall.onlyChunks
    /\ lastCall.verdict = "EVEN"
    /\ LiveEntry(lastCall.docBefore)
    /\ lastCall.docBefore.data = storage.body
    /\ lastCall.dbCall = DbCall("store", TRUE)

\* C32: storeFileToDB with onlyChunks = true never stores a whole document:
\* the only call it makes that changes the database is db.createChunks, and
\* the document of the path is left as it was, for every document state and
\* every force.
C32_OnlyChunksNeverStores ==
    (lastCall.op = "storeFileToDB" /\ lastCall.onlyChunks)
        => /\ lastCall.dbCall.fn \in {"none", "createChunks"}
           /\ dbDoc = lastCall.docBefore

\* The call createAllChunks makes, storeFileToDB(file, false, true), on a
\* live document that differs from the file.
C32_Witness ==
    /\ lastCall.op = "storeFileToDB"
    /\ lastCall.onlyChunks /\ ~lastCall.force
    /\ lastCall.info = "stub"
    /\ LiveEntry(lastCall.docBefore)
    /\ lastCall.docBefore.data # storage.body
    /\ lastCall.verdict # "EVEN"
    /\ lastCall.dbCall.fn = "createChunks"
    /\ lastCall.ret = "true"

(***************************************************************************)
(* Claims about the revisions (SpecRevisions).                             *)
(***************************************************************************)
\* The revisions the last call has deleted.
DeletedByCall == LiveRevs(lastCall.revisionsBefore) \ LiveRevs(revisions)

\* C14: deleteFileFromDB on a live document whose path has a conflicting
\* revision deletes exactly one revision, the one the storage file was
\* written from, and leaves the other live revisions; without a conflicting
\* revision it leaves no live revision of the document.
C14_DeletesTheFilesRevision ==
    (lastCall.op = "deleteFileFromDB" /\ lastCall.ret = "true")
        => IF ConflictedRevsOf(lastCall.revisionsBefore) # {}
           THEN DeletedByCall = {fileRev}
           ELSE LiveRevs(revisions) = {}

\* C19: when dbToStorageWithSpecificRev(info, rev, force) writes the storage
\* file, the file has the content and the modification time of the document
\* at revision rev; when it deletes the storage file, the document at
\* revision rev is a deleted one.
C19_MaterializesTheRevision ==
    (lastCall.op = "dbToStorageWithSpecificRev" /\ lastCall.ret = "true")
        => /\ RestoreWrote
                 => storage = FileItem(revisions[lastCall.rev].mtime,
                                       revisions[lastCall.rev].data)
           /\ lastCall.effects = <<"deleteVaultItem">>
                 => revisions[lastCall.rev].underscoreDeleted

(***************************************************************************)
(* Claims about createAllChunks (SpecChunks).                              *)
(***************************************************************************)
\* C4: never more than 10 storeFileToDB operations are in progress at once,
\* however many files are enumerated.
C4_AtMostTenStores == cRunning <= 10

C4_Witness == cRunning = 10 /\ cWaiting > 0

AllTasksSettled == sweep # "idle" /\ cPending = 0 /\ cWaiting = 0 /\ cRunning = 0

\* C5: a failure of one file, in the target-predicate check or in the store,
\* never aborts the sweep: createAllChunks does not raise, and every target
\* file has had its chunks-only store attempted once all tasks have ended.
C5_FailureNeverAborts ==
    /\ sweep # "raised"
    /\ AllTasksSettled => nAttempted = nTargets

\* C33: every file that is skipped or given a slot is counted exactly once,
\* so the completion line reports as many processed files as were
\* enumerated; a progress line is logged exactly when the count reaches a
\* multiple of 25; the completion line is logged after every per-file task
\* has ended.
C33_CountsEveryFileOnce ==
    /\ processed = cFulfilled + cRunning
    /\ progressLogs = processed \div 25
    /\ sweep = "done"
         => /\ processed = total
            /\ cPending = 0 /\ cWaiting = 0 /\ cRunning = 0

C33_Witness ==
    /\ sweep = "done"
    /\ total > 25
    /\ processed = total
    /\ progressLogs = 1
    /\ nTargets > SemaphoreLimit
    /\ nTargets < total

\* C34: every slot acquired is held by exactly one store in progress and is
\* released when that store returns or raises; once createAllChunks has been
\* called, eventually every task has ended, no slot is held, every target
\* file has been given a slot and createAllChunks has ended.
C34_SlotsAreReleased ==
    /\ [](slotsHeld = cRunning)
    /\ (sweep # "idle")
         ~> ( /\ cPending = 0 /\ cWaiting = 0 /\ cRunning = 0
              /\ slotsHeld = 0
              /\ nAttempted = nTargets
              /\ sweep \in {"done", "raised"} )

C34_Witness ==
    /\ sweep = "done"
    /\ storeFailed
    /\ slotsHeld = 0
    /\ nTargets > SemaphoreLimit
    /\ nAttempted = nTargets

(***************************************************************************)
(* Claims about the registry.                                              *)
(***************************************************************************)
WatchMarked ==
    isMarkedAsSameChanges(sameChangePairs, watch.file, <<watch.t1, watch.t2>>) = "EVEN"

\* C6 as stated: once markChangesAreSame(path, t1, t2) registered the pair,
\* isMarkedAsSameChanges(path, [t1, t2]) is EVEN after any later marks for the
\* path, until unmarkChanges(path).
C6_StaysMarkedAfterAnyMarks ==
    watchState \in {"registered", "broken"} => WatchMarked

\* C6 amended: the pair stays marked as long as every later mark for the path
\* has equal timestamps or names a timestamp of the set stored at that time.
C6_StaysMarkedAfterJoiningMarks ==
    watchState = "registered" => WatchMarked

C6_Witness ==
    /\ watchState = "registered"
    /\ Cardinality(PairsOf(sameChangePairs, getKey(watch.file))) >= 3

\* C7: after markChangesAreSame(path, a, b) directly followed by
\* markChangesAreSame(path, b, c), with a, b, c distinct, [a, b], [b, c] and
\* [a, c] are all reported EVEN for the path.
C7_TransitiveMerge ==
    [][ ( /\ lastOp.op = "mark" /\ lastOp'.op = "mark"
          /\ lastOp'.file = lastOp.file
          /\ lastOp'.mtime1 = lastOp.mtime2
          /\ Cardinality({lastOp.mtime1, lastOp.mtime2, lastOp'.mtime2}) = 3 )
        => \A l \in { <<lastOp.mtime1, lastOp.mtime2>>,
                       <<lastOp.mtime2, lastOp'.mtime2>>,
                       <<lastOp.mtime1, lastOp'.mtime2>> } :
               isMarkedAsSameChanges(sameChangePairs', lastOp.file, l) = "EVEN" ]_vars

C7_Witness ==
    /\ lastOp.op = "mark" /\ lastOp.mtime1 # lastOp.mtime2
    /\ \E a \in PairsOf(sameChangePairs, getKey(lastOp.file)) :
           a \notin {lastOp.mtime1, lastOp.mtime2}

\* The path of a file argument without its prefixes.
NormalizedPath(file) == stripAllPrefixes(file.path)

\* C22: markChangesAreSame and unmarkChanges for a file of path p leave the
\* set stored for every file of another path q as it was, and so the answer
\* of isMarkedAsSameChanges(q, L) for every list L.
C22_PartitionedByPath ==
    [][ \A g \in PartitionFiles :
            NormalizedPath(g) # NormalizedPath(lastOp'.file)
                => /\ PairsOf(sameChangePairs', getKey(g))
                          = PairsOf(sameChangePairs, getKey(g))
                   /\ \A l \in PartitionLists :
                          isMarkedAsSameChanges(sameChangePairs', g, l)
                              = isMarkedAsSameChanges(sameChangePairs, g, l) ]_vars

C22_Witness ==
    /\ lastOp.op = "mark" /\ NormalizedPath(lastOp.file) = <<"b.md">>
    /\ PairsOf(sameChangePairs, getKey(lastOp.file)) = {2, 3}
    /\ \E g \in PartitionFiles :
           /\ NormalizedPath(g) = <<"a.md">>
           /\ PairsOf(sameChangePairs, getKey(g)) = {1, 2}

\* C36: markChangesAreSame(path, t1, t2) leaves the registry as it was when
\* t1 = t2; otherwise the set S stored for the path becomes S with t1 and t2
\* added when S holds t1 or t2, and exactly {t1, t2} when S holds neither;
\* the sets of the other paths stay as they were.
C36_MarkEffect ==
    [][ lastOp'.op = "mark"
          => LET key == getKey(lastOp'.file)
                 S == sameChangePairs[key]
                 t1 == lastOp'.mtime1
                 t2 == lastOp'.mtime2
             IN  /\ sameChangePairs'[key]
                       = (IF t1 = t2 THEN S
                          ELSE IF t1 \in S \/ t2 \in S THEN S \cup {t1, t2}
                          ELSE {t1, t2})
                 /\ \A k \in Keys \ {key} : sameChangePairs'[k] = sameChangePairs[k]
      ]_vars

\* A mark has joined a stored set that held one of its timestamps and a
\* third one.
C36_Witness ==
    /\ lastOp.op = "mark"
    /\ lastOp.mtime1 > lastOp.mtime2
    /\ Cardinality(PairsOf(sameChangePairs, getKey(lastOp.file))) = 3
    /\ \E k \in Keys \ {getKey(lastOp.file)} : Cardinality(sameChangePairs[k]) = 2

\* Every timestamp of the list is in the set stored for the file's path.
AllRegistered(f, l) ==
    \A i \in 1..Len(l) : l[i] \in sameChangePairs[getKey(f)]

\* C37 as stated: isMarkedAsSameChanges(path, L) is EVEN only if every
\* timestamp of L is in the set stored for the path, and for a path with
\* nothing stored it is not EVEN for any L.
C37_EvenOnlyIfAllRegistered ==
    \A f \in FileArgs, l \in TimeLists :
        /\ isMarkedAsSameChanges(sameChangePairs, f, l) = "EVEN"
               => AllRegistered(f, l)
        /\ sameChangePairs[getKey(f)] = {}
               => isMarkedAsSameChanges(sameChangePairs, f, l) # "EVEN"

\* C37 amended: the same, where a path with nothing stored is not EVEN for
\* any L that is not empty, and is EVEN for the empty L.
C37_EvenOnlyIfAllRegisteredNonEmpty ==
    \A f \in FileArgs, l \in TimeLists :
        /\ isMarkedAsSameChanges(sameChangePairs, f, l) = "EVEN"
               => AllRegistered(f, l)
        /\ sameChangePairs[getKey(f)] = {}
               => (isMarkedAsSameChanges(sameChangePairs, f, l) = "EVEN") <=> (l = <<>>)

\* A list with one stored and one unstored timestamp is not EVEN, while a
\* list of two stored ones is.
C37_Witness ==
    \E f \in FileArgs, l, m \in TimeLists :
        /\ Len(l) = 2 /\ Len(m) = 2 /\ m[1] # m[2]
        /\ l[1] \in sameChangePairs[getKey(f)]
        /\ l[2] \notin sameChangePairs[getKey(f)]
        /\ isMarkedAsSameChanges(sameChangePairs, f, l) = "undefined"
        /\ isMarkedAsSameChanges(sameChangePairs, f, m) = "EVEN"

\* C8 as stated: after unmarkChanges(path), and until a mark for the path,
\* isMarkedAsSameChanges(path, L) is not EVEN for any list L.
C8_UnmarkedNeverEven ==
    \A f \in FileArgs, l \in TimeLists :
        unmarkedSince[getKey(f)]
            => isMarkedAsSameChanges(sameChangePairs, f, l) # "EVEN"

\* C8 amended: the same for every list L that is not empty.
C8_UnmarkedNeverEvenNonEmpty ==
    \A f \in FileArgs, l \in TimeLists :
        (unmarkedSince[getKey(f)] /\ l # <<>>)
            => isMarkedAsSameChanges(sameChangePairs, f, l) # "EVEN"

C8_Witness ==
    /\ lastOp.op = "unmark"
    /\ unmarkedSince[getKey(lastOp.file)]
    /\ \E k \in Keys : sameChangePairs[k] # {}

====
